---- MODULE Spec2Model ----
(***************************************************************************)
(* A state-machine model of the Vine editor (src/vine.c): the row buffer,  *)
(* the syntax highlighter with its cross-row comment cascade, the cursor   *)
(* and viewport arithmetic, file load and serialisation.                   *)
(*                                                                         *)
(* A C string is modelled as a sequence of one-character strings.  C array *)
(* indices are kept 0-based in the operators' parameters and in the fields *)
(* idx, cx, cy, rx; element i of a C array a is a[i + 1] here.  The NUL    *)
(* that terminates chars and render is the position just past the end.     *)
(***************************************************************************)
EXTENDS Integers, Sequences, FiniteSets, TLC

\* ------------------------------------------------------------ constants

\* enum editorHighlight (vine.c 83-92)
HL_NORMAL == 0
HL_COMMENT == 1
HL_MLCOMMENT == 2
HL_KEYWORD1 == 3
HL_KEYWORD2 == 4
HL_STRING == 5
HL_NUMBER == 6
HL_MATCH == 7

\* #define HL_HIGHLIGHT_NUMBERS, HL_HIGHLIGHT_STRINGS (vine.c 94-95)
HL_HIGHLIGHT_NUMBERS == 1
HL_HIGHLIGHT_STRINGS == 2

\* #define VINE_LINE_NUMBER_PADDING, VINE_QUIT_TIMES (vine.c 64-65)
VINE_LINE_NUMBER_PADDING == 4
VINE_QUIT_TIMES == 3

\* E.tab_stop and E.quit_times as initEditor sets them (vine.c 1262-1263);
\* loadConfig is never called, so they keep these values for the session.
TAB_STOP == 4
QUIT_TIMES == 3

\* ------------------------------------------------------------ syntax registry

\* C_HL_extensions (vine.c 190-191); the terminating NULL is the end of the sequence
C_HL_extensions ==
  <<
    <<".", "c">>, <<".", "h">>, <<".", "c", "p", "p">>, <<".", "h", "p", "p">>,
    <<".", "c", "c">>, <<".", "h", "h">>, <<".", "c", "x", "x">>, <<".", "h", "x", "x">>
  >>

\* C_HL_keywords (vine.c 192-207); the terminating NULL is the end of the sequence
C_HL_keywords ==
  <<
    <<"a", "u", "t", "o">>, <<"b", "r", "e", "a", "k">>, <<"c", "a", "s", "e">>,
    <<"c", "o", "n", "s", "t">>, <<"c", "o", "n", "t", "i", "n", "u", "e">>,
    <<"d", "e", "f", "a", "u", "l", "t">>, <<"d", "o">>, <<"e", "l", "s", "e">>,
    <<"e", "n", "u", "m">>, <<"e", "x", "t", "e", "r", "n">>, <<"f", "o", "r">>,
    <<"g", "o", "t", "o">>, <<"i", "f">>, <<"r", "e", "g", "i", "s", "t", "e", "r">>,
    <<"r", "e", "t", "u", "r", "n">>, <<"s", "i", "z", "e", "o", "f">>,
    <<"s", "t", "a", "t", "i", "c">>, <<"s", "t", "r", "u", "c", "t">>,
    <<"s", "w", "i", "t", "c", "h">>, <<"t", "y", "p", "e", "d", "e", "f">>,
    <<"u", "n", "i", "o", "n">>, <<"v", "o", "l", "a", "t", "i", "l", "e">>,
    <<"w", "h", "i", "l", "e">>, <<"_", "_", "a", "s", "m", "_", "_">>, <<"N", "U", "L", "L">>,
    <<"a", "l", "i", "g", "n", "a", "s">>, <<"a", "l", "i", "g", "n", "o", "f">>,
    <<"a", "n", "d">>, <<"a", "n", "d", "_", "e", "q">>, <<"a", "s", "m">>,
    <<"b", "i", "t", "a", "n", "d">>, <<"b", "i", "t", "o", "r">>, <<"c", "l", "a", "s", "s">>,
    <<"c", "o", "m", "p", "l">>, <<"c", "o", "n", "s", "t", "e", "x", "p", "r">>,
    <<"c", "o", "n", "s", "t", "_", "c", "a", "s", "t">>,
    <<"d", "e", "l", "t", "y", "p", "e">>, <<"d", "e", "l", "e", "t", "e">>,
    <<"d", "y", "n", "a", "m", "i", "c", "_", "c", "a", "s", "t">>,
    <<"e", "x", "p", "l", "i", "c", "i", "t">>, <<"e", "x", "p", "o", "r", "t">>,
    <<"f", "a", "l", "s", "e">>, <<"f", "r", "i", "e", "n", "d">>,
    <<"i", "n", "l", "i", "n", "e">>, <<"m", "u", "t", "a", "b", "l", "e">>,
    <<"u", "s", "i", "n", "g">>, <<"n", "a", "m", "e", "s", "p", "a", "c", "e">>,
    <<"n", "e", "w">>, <<"n", "o", "e", "x", "c", "e", "p", "t">>, <<"n", "o", "t">>,
    <<"n", "o", "t", "_", "e", "q">>, <<"n", "u", "l", "l", "p", "t", "r">>,
    <<"o", "p", "e", "r", "a", "t", "o", "r">>, <<"o", "r">>, <<"o", "r", "_", "e", "q">>,
    <<"p", "r", "i", "v", "a", "t", "e">>, <<"p", "r", "o", "t", "e", "c", "t", "e", "d">>,
    <<"p", "u", "b", "l", "i", "c">>,
    <<"r", "e", "i", "n", "t", "e", "r", "p", "r", "e", "t", "_", "c", "a", "s", "t">>,
    <<"s", "t", "a", "t", "i", "c", "_", "a", "s", "s", "e", "r", "t">>,
    <<"s", "t", "a", "t", "i", "c", "_", "c", "a", "s", "t">>,
    <<"t", "e", "m", "p", "l", "a", "t", "e">>, <<"t", "h", "i", "s">>,
    <<"t", "h", "r", "e", "a", "d", "_", "l", "o", "c", "a", "l">>,
    <<"t", "h", "r", "o", "w">>, <<"t", "r", "u", "e">>, <<"t", "r", "y">>,
    <<"t", "y", "p", "e", "i", "d">>, <<"t", "y", "p", "e", "n", "a", "m", "e">>,
    <<"v", "i", "r", "t", "u", "a", "l">>, <<"x", "o", "r">>, <<"x", "o", "r", "_", "e", "q">>,
    <<"#", "d", "e", "f", "i", "n", "e">>, <<"#", "i", "n", "c", "l", "u", "d", "e">>,
    <<"#", "i", "f">>, <<"i", "f", "d", "e", "f">>, <<"#", "i", "f", "n", "d", "e", "f">>,
    <<"#", "e", "n", "d", "i", "f">>, <<"#", "e", "r", "r", "o", "r">>,
    <<"#", "w", "a", "r", "n", "i", "n", "g">>, <<"#", "p", "r", "a", "g", "m", "a">>,
    <<"i", "n", "t", "|">>, <<"l", "o", "n", "g", "|">>, <<"d", "o", "u", "b", "l", "e", "|">>,
    <<"f", "l", "o", "a", "t", "|">>, <<"c", "h", "a", "r", "|">>,
    <<"u", "n", "s", "i", "g", "n", "e", "d", "|">>, <<"s", "i", "g", "n", "e", "d", "|">>,
    <<"v", "o", "i", "d", "|">>, <<"s", "h", "o", "r", "t", "|">>, <<"a", "u", "t", "o", "|">>,
    <<"b", "o", "o", "l", "|">>
  >>

\* GO_HL_extensions (vine.c 209-209); the terminating NULL is the end of the sequence
GO_HL_extensions ==
  <<
    <<".", "g", "o">>
  >>

\* GO_HL_keywords (vine.c 210-217); the terminating NULL is the end of the sequence
GO_HL_keywords ==
  <<
    <<"i", "f">>, <<"e", "l", "s", "e">>, <<"s", "w", "i", "t", "c", "h">>,
    <<"c", "a", "s", "e">>, <<"f", "u", "n", "c">>, <<"t", "h", "e", "n">>, <<"f", "o", "r">>,
    <<"v", "a", "r">>, <<"t", "y", "p", "e">>, <<"i", "n", "t", "e", "r", "f", "a", "c", "e">>,
    <<"c", "o", "n", "s", "t">>, <<"r", "a", "n", "g", "e">>, <<"r", "e", "t", "u", "r", "n">>,
    <<"s", "t", "r", "u", "c", "t">>, <<"d", "e", "f", "a", "u", "l", "t">>,
    <<"i", "o", "t", "a">>, <<"n", "i", "l">>, <<"p", "a", "c", "k", "a", "g", "e">>,
    <<"i", "m", "p", "o", "r", "t">>, <<"m", "a", "p">>, <<"b", "r", "e", "a", "k">>,
    <<"c", "o", "n", "t", "i", "n", "u", "e">>, <<"i", "n", "t", "|">>,
    <<"i", "n", "t", "8", "|">>, <<"i", "n", "t", "1", "6", "|">>,
    <<"i", "n", "t", "3", "2", "|">>, <<"i", "n", "t", "6", "4", "|">>,
    <<"u", "i", "n", "t", "|">>, <<"u", "i", "n", "t", "8", "|">>,
    <<"u", "i", "n", "t", "1", "6", "|">>, <<"u", "i", "n", "t", "3", "2", "|">>,
    <<"u", "i", "n", "t", "6", "4", "|">>, <<"f", "l", "o", "a", "t", "3", "2", "|">>,
    <<"f", "l", "o", "a", "t", "6", "4", "|">>, <<"b", "y", "t", "e", "|">>,
    <<"r", "u", "n", "e", "|">>, <<"b", "o", "o", "l", "|">>,
    <<"s", "t", "r", "i", "n", "g", "|">>,
    <<"c", "o", "m", "p", "l", "e", "x", "6", "4", "|">>,
    <<"c", "o", "m", "p", "l", "e", "x", "1", "2", "8", "|">>, <<"a", "n", "y", "|">>,
    <<"e", "r", "r", "o", "r", "|">>, <<"c", "o", "m", "p", "a", "r", "a", "b", "l", "e", "|">>
  >>

\* PY_HL_extensions (vine.c 219-220); the terminating NULL is the end of the sequence
PY_HL_extensions ==
  <<
    <<".", "p", "y">>, <<"p", "y", "i">>, <<".", "x", "p", "y">>, <<"p", "y", "x">>,
    <<".", "p", "y", "w">>, <<".", "i", "p", "y", "n", "b">>
  >>

\* PY_HL_keywords (vine.c 221-238); the terminating NULL is the end of the sequence
PY_HL_keywords ==
  <<
    <<"a", "n", "d">>, <<"a", "s">>, <<"a", "s", "s", "e", "r", "t">>,
    <<"b", "r", "e", "a", "k">>, <<"c", "l", "a", "s", "s">>,
    <<"c", "o", "n", "t", "i", "n", "u", "e">>, <<"d", "e", "f">>, <<"d", "e", "l">>,
    <<"e", "l", "i", "f">>, <<"e", "l", "s", "e">>, <<"e", "x", "c", "e", "p", "t">>,
    <<"e", "x", "e", "c">>, <<"f", "i", "n", "a", "l", "l", "y">>, <<"f", "o", "r">>,
    <<"f", "r", "o", "m">>, <<"g", "l", "o", "b", "a", "l">>, <<"i", "f">>,
    <<"i", "m", "p", "o", "r", "t">>, <<"i", "n">>, <<"i", "s">>,
    <<"l", "a", "m", "b", "d", "a">>, <<"n", "o", "t">>, <<"o", "r">>, <<"p", "a", "s", "s">>,
    <<"p", "r", "i", "n", "t">>, <<"r", "a", "i", "s", "e">>, <<"r", "e", "t", "u", "r", "n">>,
    <<"t", "r", "y">>, <<"w", "h", "i", "l", "e">>, <<"w", "i", "t", "h">>,
    <<"y", "i", "e", "l", "d">>, <<"a", "s", "y", "n", "c">>, <<"a", "w", "a", "i", "t">>,
    <<"n", "o", "n", "l", "o", "c", "a", "l">>, <<"r", "a", "n", "g", "e">>,
    <<"x", "r", "a", "n", "g", "e">>, <<"r", "e", "d", "u", "c", "e">>, <<"m", "a", "p">>,
    <<"f", "i", "l", "t", "e", "r">>, <<"a", "l", "l">>, <<"a", "n", "y">>, <<"s", "u", "m">>,
    <<"d", "i", "r">>, <<"a", "b", "s">>, <<"b", "r", "e", "a", "k", "p", "o", "i", "n", "t">>,
    <<"c", "o", "m", "p", "i", "l", "e">>, <<"d", "e", "l", "a", "t", "t", "r">>,
    <<"d", "i", "v", "m", "o", "d">>, <<"f", "o", "r", "m", "a", "t">>, <<"e", "v", "a", "l">>,
    <<"g", "e", "t", "a", "t", "t", "r">>, <<"h", "a", "s", "a", "t", "t", "r">>,
    <<"h", "a", "s", "h">>, <<"h", "e", "l", "p">>, <<"i", "d">>, <<"i", "n", "p", "u", "t">>,
    <<"i", "s", "i", "n", "s", "t", "a", "n", "c", "e">>,
    <<"i", "s", "s", "u", "b", "c", "l", "a", "s", "s">>, <<"l", "e", "n">>,
    <<"l", "o", "c", "a", "l", "s">>, <<"m", "a", "x">>, <<"m", "i", "n">>,
    <<"n", "e", "x", "t">>, <<"o", "p", "e", "n">>, <<"p", "o", "w">>, <<"r", "e", "p", "r">>,
    <<"r", "e", "v", "e", "r", "s", "e", "d">>, <<"r", "o", "u", "n", "d">>,
    <<"s", "e", "t", "a", "t", "t", "r">>, <<"s", "l", "i", "c", "e">>,
    <<"s", "o", "r", "t", "e", "d">>, <<"s", "u", "p", "e", "r">>, <<"v", "a", "r", "s">>,
    <<"z", "i", "p">>, <<"_", "_", "i", "m", "p", "o", "r", "t", "_", "_">>,
    <<"r", "e", "l", "o", "a", "d">>, <<"r", "a", "w", "_", "i", "n", "p", "u", "t">>,
    <<"e", "x", "e", "c", "f", "i", "l", "e">>, <<"f", "i", "l", "e">>, <<"c", "m", "p">>,
    <<"b", "a", "s", "e", "s", "t", "r", "i", "n", "g">>,
    <<"b", "u", "f", "f", "e", "r", "|">>,
    <<"b", "y", "t", "e", "a", "r", "r", "a", "y", "|">>, <<"b", "y", "t", "e", "s", "|">>,
    <<"c", "o", "m", "p", "l", "e", "x", "|">>, <<"f", "l", "o", "a", "t", "|">>,
    <<"f", "r", "o", "z", "e", "n", "s", "e", "t", "|">>, <<"i", "n", "t", "|">>,
    <<"l", "i", "s", "t", "|">>, <<"l", "o", "n", "g", "|">>, <<"N", "o", "n", "e", "|">>,
    <<"s", "e", "t", "|">>, <<"s", "t", "r", "|">>, <<"c", "h", "r", "|">>,
    <<"t", "u", "p", "l", "e", "|">>, <<"b", "o", "o", "l", "|">>,
    <<"F", "a", "l", "s", "e", "|">>, <<"T", "r", "u", "e", "|">>, <<"t", "y", "p", "e", "|">>,
    <<"u", "n", "i", "c", "o", "d", "e", "|">>, <<"d", "i", "c", "t", "|">>,
    <<"a", "s", "c", "i", "i", "|">>, <<"b", "i", "n", "|">>,
    <<"c", "a", "l", "l", "a", "b", "l", "e", "|">>,
    <<"c", "l", "a", "s", "s", "m", "e", "t", "h", "o", "d", "|">>,
    <<"e", "n", "u", "m", "e", "r", "a", "t", "e", "|">>, <<"h", "e", "x", "|">>,
    <<"o", "c", "t", "|">>, <<"o", "r", "d", "|">>, <<"i", "t", "e", "r", "|">>,
    <<"m", "e", "m", "o", "r", "y", "v", "i", "e", "w", "|">>,
    <<"o", "b", "j", "e", "c", "t", "|">>, <<"p", "r", "o", "p", "e", "r", "t", "y", "|">>,
    <<"s", "t", "a", "t", "i", "c", "m", "e", "t", "h", "o", "d", "|">>,
    <<"u", "n", "i", "c", "h", "r", "|">>
  >>

\* RUST_HL_extensions (vine.c 240-240); the terminating NULL is the end of the sequence
RUST_HL_extensions ==
  <<
    <<".", "r", "s">>
  >>

\* RUST_HL_keywords (vine.c 241-251); the terminating NULL is the end of the sequence
RUST_HL_keywords ==
  <<
    <<"a", "s">>, <<"a", "s", "y", "n", "c">>, <<"a", "w", "a", "i", "t">>,
    <<"c", "o", "n", "s", "t">>, <<"c", "r", "a", "t", "e">>, <<"d", "y", "n">>,
    <<"e", "n", "u", "m">>, <<"e", "x", "t", "e", "r", "n">>, <<"f", "n">>,
    <<"i", "m", "p", "l">>, <<"l", "e", "t">>, <<"m", "o", "d">>, <<"m", "o", "v", "e">>,
    <<"m", "u", "t">>, <<"p", "u", "b">>, <<"r", "e", "f">>, <<"S", "e", "l", "f">>,
    <<"s", "t", "a", "t", "i", "c">>, <<"s", "t", "r", "u", "c", "t">>,
    <<"s", "u", "p", "e", "r">>, <<"t", "r", "a", "i", "t">>, <<"t", "y", "p", "e">>,
    <<"u", "n", "i", "o", "n">>, <<"u", "n", "s", "a", "f", "e">>, <<"u", "s", "e">>,
    <<"w", "h", "e", "r", "e">>, <<"b", "r", "e", "a", "k">>,
    <<"c", "o", "n", "t", "i", "n", "u", "e">>, <<"e", "l", "s", "e">>, <<"f", "o", "r">>,
    <<"i", "f">>, <<"i", "n">>, <<"l", "o", "o", "p">>, <<"m", "a", "t", "c", "h">>,
    <<"r", "e", "t", "u", "r", "n">>, <<"w", "h", "i", "l", "e">>, <<"i", "8", "|">>,
    <<"i", "1", "6", "|">>, <<"i", "3", "2", "|">>, <<"i", "6", "4", "|">>,
    <<"i", "1", "2", "8", "|">>, <<"i", "s", "i", "z", "e", "|">>, <<"u", "8", "|">>,
    <<"u", "1", "6", "|">>, <<"u", "3", "2", "|">>, <<"u", "6", "4", "|">>,
    <<"u", "1", "2", "8", "|">>, <<"u", "s", "i", "z", "e", "|">>, <<"f", "3", "2", "|">>,
    <<"f", "6", "4", "|">>, <<"b", "o", "o", "l", "|">>, <<"c", "h", "a", "r", "|">>,
    <<"B", "o", "x", "|">>, <<"O", "p", "t", "i", "o", "n", "|">>, <<"S", "o", "m", "e", "|">>,
    <<"N", "o", "n", "e", "|">>, <<"R", "e", "s", "u", "l", "t", "|">>, <<"O", "k", "|">>,
    <<"E", "r", "r", "|">>, <<"S", "t", "r", "i", "n", "g", "|">>, <<"V", "e", "c", "|">>,
    <<"l", "e", "t", "|">>, <<"c", "o", "n", "s", "t", "|">>, <<"m", "o", "d", "|">>,
    <<"s", "t", "r", "u", "c", "t", "|">>, <<"e", "n", "u", "m", "|">>,
    <<"t", "r", "a", "i", "t", "|">>, <<"u", "n", "i", "o", "n", "|">>,
    <<"s", "e", "l", "f", "|">>, <<"t", "r", "u", "e", "|">>, <<"f", "a", "l", "s", "e", "|">>
  >>

\* struct editorSyntax HLDB[] (vine.c 255-284); flags are kept as the set of
\* the flag bits that are on.
HLDB ==
  << [ filetype  |-> "C/C++",
       filematch |-> C_HL_extensions,
       keywords  |-> C_HL_keywords,
       singleline_comment_start |-> <<"/", "/">>,
       multiline_comment_start  |-> <<"/", "*">>,
       multiline_comment_end    |-> <<"*", "/">>,
       flags |-> {HL_HIGHLIGHT_NUMBERS, HL_HIGHLIGHT_STRINGS} ],
     [ filetype  |-> "Golang",
       filematch |-> GO_HL_extensions,
       keywords  |-> GO_HL_keywords,
       singleline_comment_start |-> <<"/", "/">>,
       multiline_comment_start  |-> <<"/", "*">>,
       multiline_comment_end    |-> <<"*", "/">>,
       flags |-> {HL_HIGHLIGHT_NUMBERS, HL_HIGHLIGHT_STRINGS} ],
     [ filetype  |-> "Python",
       filematch |-> PY_HL_extensions,
       keywords  |-> PY_HL_keywords,
       singleline_comment_start |-> <<"#">>,
       multiline_comment_start  |-> <<"\"", "\"", "\"">>,
       multiline_comment_end    |-> <<"\"", "\"", "\"">>,
       flags |-> {HL_HIGHLIGHT_NUMBERS, HL_HIGHLIGHT_STRINGS} ],
     [ filetype  |-> "Rust",
       filematch |-> RUST_HL_extensions,
       keywords  |-> RUST_HL_keywords,
       singleline_comment_start |-> <<"/", "/">>,
       multiline_comment_start  |-> <<"/", "*">>,
       multiline_comment_end    |-> <<"*", "/">>,
       flags |-> {HL_HIGHLIGHT_NUMBERS, HL_HIGHLIGHT_STRINGS} ] >>

\* #define HLDB_ENTRIES (vine.c 286)
HLDB_ENTRIES == Len(HLDB)

\* E.syntax is NULL (NoSyntax) or points at HLDB[j]; the pointer is modelled
\* by the 1-based position j + 1.
NoSyntax == 0

\* ------------------------------------------------------------ syntax highlighting

\* isspace() and isdigit() of <ctype.h> in the C locale, on the characters a
\* TLA+ string can name (vertical tab is left out).
isspace(c) == c \in {" ", "\t", "\n", "\r", "\f"}

isdigit(c) == c \in {"0", "1", "2", "3", "4", "5", "6", "7", "8", "9"}

\* The character at C index i of a NUL-terminated string s: the terminator
\* at i = strlen(s) reads as NUL.
NUL == "NUL"

CharAt(s, i) == IF i < Len(s) THEN s[i + 1] ELSE NUL

\* is_separator (vine.c 404-406).  strchr finds the terminator too, so NUL
\* is a separator twice over.  The backquote and the two bytes of the acute
\* accent cannot be written in a TLA+ string and are outside the alphabet.
is_separator(c) ==
  \/ isspace(c)
  \/ c = NUL
  \/ c \in {",", ".", "(", ")", "+", "-", "/", "*", "^", "=", "@", "#", "~", "&",
            "%", "$", "<", ">", "[", "]", "{", "}", "!", "\\", ":", "|", ";", "?"}

\* !strncmp(&s[i], t, strlen(t)) for a NUL-terminated s that holds no NUL
\* before its end: t occurs in s at C index i.
MatchAt(s, i, t) ==
  /\ i + Len(t) <= Len(s)
  /\ Len(t) > 0 => s[i + 1] = t[1]
  /\ \A k \in 2..Len(t) : s[i + k] = t[k]

\* memset(&hl[i], v, n)
memset(hl, i, v, n) ==
  [k \in 1..Len(hl) |-> IF i + 1 <= k /\ k <= i + n THEN v ELSE hl[k]]

\* What the keyword loop of editorUpdateSyntax (vine.c 496-508) reads off
\* a keyword: kw2, whether it ends in "|"; klen, its length without the "|";
\* word, its first klen characters.
Keyword(kw) ==
  LET kw2  == kw[Len(kw)] = "|"
      klen == IF kw2 THEN Len(kw) - 1 ELSE Len(kw)
  IN [kw2 |-> kw2, klen |-> klen, word |-> SubSeq(kw, 1, klen)]

\* The keyword lists of HLDB as that loop reads them.
Keywords == [s \in 1..HLDB_ENTRIES |->
               [j \in 1..Len(HLDB[s].keywords) |-> Keyword(HLDB[s].keywords[j])]]

\* The keyword loop without its test of the character behind the keyword.
KeywordHitsNoSeparator(render, i, keywords) ==
  { j \in 1..Len(keywords) : MatchAt(render, i, keywords[j].word) }

\* The loop itself: the index j of the first keyword that matches at i
\* and is followed by a separator, or Len(keywords) + 1 when the loop runs
\* into the NULL.
KeywordHits(render, i, keywords) ==
  { j \in 1..Len(keywords) :
      /\ MatchAt(render, i, keywords[j].word)
      /\ is_separator(CharAt(render, i + keywords[j].klen)) }

\* The keyword loop running through the whole list: the last keyword that
\* matches decides.
LastKeyword(render, i, keywords) ==
  LET hits == { j \in 1..Len(keywords) :
                  /\ MatchAt(render, i, keywords[j].word)
                  /\ is_separator(CharAt(render, i + keywords[j].klen)) }
  IN IF hits = {} THEN Len(keywords) + 1
     ELSE CHOOSE j \in hits : \A k \in hits : j >= k

FirstKeyword(render, i, keywords) ==
  LET hits == KeywordHits(render, i, keywords)
  IN IF hits = {} THEN Len(keywords) + 1
     ELSE CHOOSE j \in hits : \A k \in hits : j <= k

\* in_string is 0 (NoString) or the quote character that opened the string.
NoString == ""

\* The test for a single-line comment without its conditions on in_string
\* and in_comment.
SinglelineCommentAnywhere(r, syn, i, in_string, in_comment) ==
  /\ Len(syn.singleline_comment_start) > 0
  /\ MatchAt(r.render, i, syn.singleline_comment_start)

\* The test that starts a single-line comment at scan position i
\* (vine.c 433-434).
SinglelineCommentAt(r, syn, i, in_string, in_comment) ==
  /\ Len(syn.singleline_comment_start) > 0
  /\ in_string = NoString
  /\ ~in_comment
  /\ MatchAt(r.render, i, syn.singleline_comment_start)

\* One iteration of the scan loop of editorUpdateSyntax (vine.c 429-517) at
\* scan position i < rsize, with the loop's locals as parameters (keywords
\* is the keyword list of syn): the locals when the iteration ends, and brk,
\* whether it ends with the break of the single-line comment.
ScanStep(r, syn, keywords, i, hl, prev_sep, in_string, in_comment) ==
  LET c       == r.render[i + 1]
      prev_hl == IF i > 0 THEN hl[i] ELSE HL_NORMAL
      mcs     == syn.multiline_comment_start
      mce     == syn.multiline_comment_end
      j       == FirstKeyword(r.render, i, keywords)
      kw2     == keywords[j].kw2
      klen    == keywords[j].klen
      Cont(i2, hl2, prev_sep2, in_string2, in_comment2) ==
        [brk |-> FALSE, i |-> i2, hl |-> hl2, prev_sep |-> prev_sep2,
         in_string |-> in_string2, in_comment |-> in_comment2]
  IN
  IF SinglelineCommentAt(r, syn, i, in_string, in_comment)
  THEN [brk |-> TRUE, i |-> i, hl |-> memset(hl, i, HL_COMMENT, r.rsize - i),
        prev_sep |-> prev_sep, in_string |-> in_string, in_comment |-> in_comment]
  ELSE IF Len(mcs) > 0 /\ Len(mce) > 0 /\ in_string = NoString /\ in_comment
  THEN IF MatchAt(r.render, i, mce)
       THEN Cont(i + Len(mce), memset(hl, i, HL_MLCOMMENT, Len(mce)), TRUE, in_string, FALSE)
       ELSE Cont(i + 1, [hl EXCEPT ![i + 1] = HL_MLCOMMENT], prev_sep, in_string, in_comment)
  ELSE IF Len(mcs) > 0 /\ Len(mce) > 0 /\ in_string = NoString
          /\ MatchAt(r.render, i, mcs)
  THEN Cont(i + Len(mcs), memset(hl, i, HL_MLCOMMENT, Len(mcs)), prev_sep, in_string, TRUE)
  ELSE IF HL_HIGHLIGHT_STRINGS \in syn.flags /\ in_string # NoString
  THEN IF c = "\\" /\ i + 1 < r.rsize
       THEN Cont(i + 2, [hl EXCEPT ![i + 1] = HL_STRING, ![i + 2] = HL_STRING],
                 prev_sep, in_string, in_comment)
       ELSE Cont(i + 1, [hl EXCEPT ![i + 1] = HL_STRING], TRUE,
                 IF c = in_string THEN NoString ELSE in_string, in_comment)
  ELSE IF HL_HIGHLIGHT_STRINGS \in syn.flags /\ (c = "\"" \/ c = "'")
  THEN Cont(i + 1, [hl EXCEPT ![i + 1] = HL_STRING], prev_sep, c, in_comment)
  ELSE IF /\ HL_HIGHLIGHT_NUMBERS \in syn.flags
          /\ \/ isdigit(c) /\ (prev_sep \/ prev_hl = HL_NUMBER)
             \/ c \in {".", "x", "a", "b", "c", "d", "e", "f"} /\ prev_hl = HL_NUMBER
  THEN Cont(i + 1, [hl EXCEPT ![i + 1] = HL_NUMBER], FALSE, in_string, in_comment)
  ELSE IF prev_sep /\ j <= Len(keywords)
  THEN Cont(i + klen, memset(hl, i, IF kw2 THEN HL_KEYWORD2 ELSE HL_KEYWORD1, klen),
            FALSE, in_string, in_comment)
  ELSE Cont(i + 1, hl, is_separator(c), in_string, in_comment)

\* The scan loop of editorUpdateSyntax (vine.c 424-517) from scan position i
\* on; it yields the highlight array and in_comment as they are when the
\* loop is left.
RECURSIVE ScanLoop(_, _, _, _, _, _, _, _)
RECURSIVE ScanFrom(_, _, _, _)
ScanLoop(r, syn, keywords, i, hl, prev_sep, in_string, in_comment) ==
  IF i >= r.rsize THEN [hl |-> hl, in_comment |-> in_comment]
  ELSE ScanFrom(r, syn, keywords,
                ScanStep(r, syn, keywords, i, hl, prev_sep, in_string, in_comment))

\* The scan loop after an iteration that ended with the locals n: left at
\* the break (vine.c 436), continued otherwise.
ScanFrom(r, syn, keywords, n) ==
  IF n.brk THEN [hl |-> n.hl, in_comment |-> n.in_comment]
  ELSE ScanLoop(r, syn, keywords, n.i, n.hl, n.prev_sep, n.in_string, n.in_comment)

RECURSIVE editorUpdateSyntax(_, _, _, _)

\* editorUpdateSyntax without the re-highlighting of the following row.
editorUpdateSyntaxNoCascade(rows, numrows, syntax, at) ==
  LET r    == rows[at + 1]
      hl0  == [k \in 1..r.rsize |-> HL_NORMAL]
      seed == r.idx > 0 /\ rows[r.idx].hl_open_comment
      res  == ScanLoop(r, HLDB[syntax], Keywords[syntax], 0, hl0, TRUE, NoString, seed)
  IN IF syntax = NoSyntax THEN [rows EXCEPT ![at + 1].hl = hl0]
     ELSE [rows EXCEPT ![at + 1].hl = res.hl,
                       ![at + 1].hl_open_comment = res.in_comment]

\* editorUpdateSyntax without the return for E.syntax == NULL: the row is
\* scanned with the first entry of HLDB.
editorUpdateSyntaxNoNullTest(rows, numrows, syntax, at) ==
  LET r    == rows[at + 1]
      syn  == IF syntax = NoSyntax THEN 1 ELSE syntax
      hl0  == [k \in 1..r.rsize |-> HL_NORMAL]
      seed == r.idx > 0 /\ rows[r.idx].hl_open_comment
      res  == ScanLoop(r, HLDB[syn], Keywords[syn], 0, hl0, TRUE, NoString, seed)
  IN [rows EXCEPT ![at + 1].hl = res.hl,
                  ![at + 1].hl_open_comment = res.in_comment]

\* editorUpdateSyntax that starts every row outside a comment.
editorUpdateSyntaxNoSeed(rows, numrows, syntax, at) ==
  LET r    == rows[at + 1]
      hl0  == [k \in 1..r.rsize |-> HL_NORMAL]
      res  == ScanLoop(r, HLDB[syntax], Keywords[syntax], 0, hl0, TRUE, NoString, FALSE)
      changed == r.hl_open_comment # res.in_comment
      rows1 == [rows EXCEPT ![at + 1].hl = res.hl,
                            ![at + 1].hl_open_comment = res.in_comment]
  IN IF syntax = NoSyntax THEN [rows EXCEPT ![at + 1].hl = hl0]
     ELSE IF changed /\ r.idx + 1 < numrows
          THEN editorUpdateSyntax(rows1, numrows, syntax, r.idx + 1)
          ELSE rows1

\* editorUpdateSyntax(&E.row[at]) (vine.c 408-523) on the row array rows,
\* with E.numrows = numrows and E.syntax = syntax at the time of the call;
\* the result is the row array when the call, with its recursion into the
\* following rows, returns.  The neighbours are found through the row's own
\* idx field, as in the code.
editorUpdateSyntax(rows, numrows, syntax, at) ==
  LET r    == rows[at + 1]
      hl0  == [k \in 1..r.rsize |-> HL_NORMAL]
      seed == r.idx > 0 /\ rows[r.idx].hl_open_comment
      res  == ScanLoop(r, HLDB[syntax], Keywords[syntax], 0, hl0, TRUE, NoString, seed)
      changed == r.hl_open_comment # res.in_comment
      rows1 == [rows EXCEPT ![at + 1].hl = res.hl,
                            ![at + 1].hl_open_comment = res.in_comment]
  IN IF syntax = NoSyntax THEN [rows EXCEPT ![at + 1].hl = hl0]
     ELSE IF changed /\ r.idx + 1 < numrows
          THEN editorUpdateSyntax(rows1, numrows, syntax, r.idx + 1)
          ELSE rows1

\* The iterations the scan loop makes from scan position i on, at most fuel
\* of them: for each the scan position it starts at (from), the one it
\* ends at (to), and whether it leaves the loop by break (brk).
RECURSIVE ScanIterations(_, _, _, _, _, _, _, _, _)
ScanIterations(r, syn, keywords, i, hl, prev_sep, in_string, in_comment, fuel) ==
  IF i >= r.rsize \/ fuel = 0 THEN <<>>
  ELSE
    LET n == ScanStep(r, syn, keywords, i, hl, prev_sep, in_string, in_comment)
    IN <<[from |-> i, to |-> n.i, brk |-> n.brk]>>
       \o (IF n.brk THEN <<>>
           ELSE ScanIterations(r, syn, keywords, n.i, n.hl, n.prev_sep, n.in_string,
                               n.in_comment, fuel - 1))

\* The recursion of editorUpdateSyntax that goes on to the next row whether
\* or not the open-comment flag has changed.
RECURSIVE CascadeRowsAlways(_, _, _, _)
CascadeRowsAlways(rows, numrows, syntax, at) ==
  LET r     == rows[at + 1]
      rows1 == editorUpdateSyntaxNoCascade(rows, numrows, syntax, at)
  IN IF syntax = NoSyntax THEN <<r.idx>>
     ELSE IF r.idx + 1 < numrows
          THEN <<r.idx>> \o CascadeRowsAlways(rows1, numrows, syntax, r.idx + 1)
          ELSE <<r.idx>>

\* The rows editorUpdateSyntax(&E.row[at]) scans, in the order of the calls:
\* the row itself and, through the recursion of vine.c 519-522, the rows
\* behind it.
RECURSIVE CascadeRows(_, _, _, _)
CascadeRows(rows, numrows, syntax, at) ==
  LET r       == rows[at + 1]
      rows1   == editorUpdateSyntaxNoCascade(rows, numrows, syntax, at)
      changed == r.hl_open_comment # rows1[at + 1].hl_open_comment
  IN IF syntax = NoSyntax THEN <<r.idx>>
     ELSE IF changed /\ r.idx + 1 < numrows
          THEN <<r.idx>> \o CascadeRows(rows1, numrows, syntax, r.idx + 1)
          ELSE <<r.idx>>

\* ------------------------------------------------------------ row operations

\* Every operation below takes the editor state e (struct editorConfig E,
\* vine.c 129-148) and yields the state when the C function returns.  A row
\* pointer &E.row[at] is passed as the array index at.

\* editorRowCxToRx (vine.c 567-576) for 0 <= cx <= Len(chars).
RECURSIVE CxToRxLoop(_, _, _, _)
CxToRxLoop(chars, cx, j, rx) ==
  IF j >= cx THEN rx
  ELSE CxToRxLoop(chars, cx, j + 1,
                  IF chars[j + 1] = "\t"
                  THEN rx + (TAB_STOP - 1) - (rx % TAB_STOP) + 1
                  ELSE rx + 1)

\* editorRowCxToRx that counts a tab as one column.
editorRowCxToRxNoTab(r, cx) == cx

editorRowCxToRx(r, cx) == CxToRxLoop(r.chars, cx, 0, 0)

\* editorRowRxToCx (vine.c 578-589)
RECURSIVE RxToCxLoop(_, _, _, _)
RxToCxLoop(r, rx, cx, cur_rx) ==
  IF cx >= r.size THEN cx
  ELSE LET nxt == IF r.chars[cx + 1] = "\t"
                  THEN cur_rx + (TAB_STOP - 1) - (cur_rx % TAB_STOP) + 1
                  ELSE cur_rx + 1
       IN IF nxt > rx THEN cx ELSE RxToCxLoop(r, rx, cx + 1, nxt)

editorRowRxToCx(r, rx) == RxToCxLoop(r, rx, 0, 0)

\* The render loop that writes TAB_STOP spaces for every tab, wherever the
\* tab stands.
RECURSIVE RenderLoopFixedWidth(_, _, _, _)
RenderLoopFixedWidth(chars, size, j, render) ==
  IF j >= size THEN render
  ELSE IF chars[j + 1] = "\t"
       THEN RenderLoopFixedWidth(chars, size, j + 1,
                                 render \o [k \in 1..TAB_STOP |-> " "])
       ELSE RenderLoopFixedWidth(chars, size, j + 1, Append(render, chars[j + 1]))

\* The second loop of editorUpdateRow (vine.c 600-608): the render string
\* built so far is render, idx is its length.
RECURSIVE RenderLoop(_, _, _, _)
RenderLoop(chars, size, j, render) ==
  IF j >= size THEN render
  ELSE IF chars[j + 1] = "\t"
       THEN LET idx == Len(render) + 1
                pad == (TAB_STOP - (idx % TAB_STOP)) % TAB_STOP
            IN RenderLoop(chars, size, j + 1,
                          render \o [k \in 1..(1 + pad) |-> " "])
       ELSE RenderLoop(chars, size, j + 1, Append(render, chars[j + 1]))

\* editorUpdateRow without the call of editorUpdateSyntax.
editorUpdateRowNoSyntax(e, at) ==
  LET r      == e.row[at + 1]
      render == RenderLoop(r.chars, r.size, 0, <<>>)
  IN [e EXCEPT !.row[at + 1].render = render, !.row[at + 1].rsize = Len(render)]

\* editorUpdateRow(&E.row[at]) (vine.c 591-613)
editorUpdateRow(e, at) ==
  LET r      == e.row[at + 1]
      render == RenderLoop(r.chars, r.size, 0, <<>>)
      rows1  == [e.row EXCEPT ![at + 1].render = render,
                              ![at + 1].rsize = Len(render)]
  IN [e EXCEPT !.row = editorUpdateSyntax(rows1, e.numrows, e.syntax, at)]

\* editorInsertRow(at, s, len) (vine.c 615-636).  The new row is updated
\* while E.numrows still holds the old row count.
editorInsertRow(e, at, s) ==
  IF at < 0 \/ at > e.numrows THEN e
  ELSE
    LET new == [idx |-> at, size |-> Len(s), chars |-> s, rsize |-> 0,
                render |-> <<>>, hl |-> <<>>, hl_open_comment |-> FALSE]
        moved == [k \in 1..(e.numrows + 1) |->
                    IF k <= at THEN e.row[k]
                    ELSE IF k = at + 1 THEN new
                    ELSE [e.row[k - 1] EXCEPT !.idx = @ + 1]]
        e1 == editorUpdateRow([e EXCEPT !.row = moved], at)
    IN [e1 EXCEPT !.numrows = @ + 1, !.dirty = @ + 1]

\* editorDelRow without the renumbering of the rows behind the deleted one.
editorDelRowNoRenumber(e, at) ==
  IF at < 0 \/ at >= e.numrows THEN e
  ELSE [e EXCEPT !.row = [k \in 1..(e.numrows - 1) |->
                            IF k <= at THEN e.row[k] ELSE e.row[k + 1]],
                 !.numrows = @ - 1,
                 !.dirty = @ + 1]

\* editorDelRow(at) (vine.c 644-651)
editorDelRow(e, at) ==
  IF at < 0 \/ at >= e.numrows THEN e
  ELSE [e EXCEPT !.row = [k \in 1..(e.numrows - 1) |->
                            IF k <= at THEN e.row[k]
                            ELSE [e.row[k + 1] EXCEPT !.idx = @ - 1]],
                 !.numrows = @ - 1,
                 !.dirty = @ + 1]

\* editorRowInsertChar(&E.row[row], at, c) (vine.c 653-661)
editorRowInsertChar(e, row, at, c) ==
  LET r   == e.row[row + 1]
      at1 == IF at < 0 \/ at > r.size THEN r.size ELSE at
      chars == SubSeq(r.chars, 1, at1) \o <<c>> \o SubSeq(r.chars, at1 + 1, r.size)
      e1  == [e EXCEPT !.row[row + 1].chars = chars, !.row[row + 1].size = @ + 1]
  IN [editorUpdateRow(e1, row) EXCEPT !.dirty = @ + 1]

\* editorRowAppendString without the memcpy of s and the new size.
editorRowAppendStringNoCopy(e, row, s) ==
  [editorUpdateRow(e, row) EXCEPT !.dirty = @ + 1]

\* editorRowAppendString(&E.row[row], s, len) (vine.c 663-670)
editorRowAppendString(e, row, s) ==
  LET e1 == [e EXCEPT !.row[row + 1].chars = @ \o s,
                      !.row[row + 1].size = @ + Len(s)]
  IN [editorUpdateRow(e1, row) EXCEPT !.dirty = @ + 1]

\* editorRowDelChar without the increment of E.dirty.
editorRowDelCharNoDirty(e, row, at) ==
  LET r == e.row[row + 1]
      chars == SubSeq(r.chars, 1, at) \o SubSeq(r.chars, at + 2, r.size)
      e1 == [e EXCEPT !.row[row + 1].chars = chars, !.row[row + 1].size = @ - 1]
  IN IF at < 0 \/ at >= r.size THEN e
     ELSE editorUpdateRow(e1, row)

\* editorRowDelChar(&E.row[row], at) (vine.c 672-678)
editorRowDelChar(e, row, at) ==
  LET r == e.row[row + 1]
      chars == SubSeq(r.chars, 1, at) \o SubSeq(r.chars, at + 2, r.size)
      e1 == [e EXCEPT !.row[row + 1].chars = chars, !.row[row + 1].size = @ - 1]
  IN IF at < 0 \/ at >= r.size THEN e
     ELSE [editorUpdateRow(e1, row) EXCEPT !.dirty = @ + 1]

\* ------------------------------------------------------------ syntax selection

\* A NULL char pointer: no sequence of characters, since every character is
\* a string of length one.
NULL == <<NUL>>

\* strstr(s, t) != NULL: t occurs in s.
Occurs(s, t) == \E i \in 0..Len(s) : MatchAt(s, i, t)

\* strstr(s, t) - s for a t that occurs in s: the first occurrence.
FirstOccurrence(s, t) ==
  CHOOSE i \in 0..Len(s) : MatchAt(s, i, t) /\ \A k \in 0..(i - 1) : ~MatchAt(s, k, t)

\* strrchr(name, '.'): the suffix of name from its last dot on, NULL if it
\* has no dot.
strrchrDot(name) ==
  IF \E i \in 1..Len(name) : name[i] = "."
  THEN LET i == CHOOSE i \in 1..Len(name) :
                  name[i] = "." /\ \A k \in (i + 1)..Len(name) : name[k] # "."
       IN SubSeq(name, i, Len(name))
  ELSE NULL

\* The test for one filematch pattern with every pattern taken as a
\* substring pattern.
FileMatchesAnywhere(name, pat) == Occurs(name, pat)

\* The test of vine.c 548-550 for one filematch pattern.
FileMatches(name, pat) ==
  LET is_ext == pat[1] = "."
      ext    == strrchrDot(name)
  IN \/ is_ext /\ ext # NULL /\ ext = pat
     \/ ~is_ext /\ Occurs(name, pat)

\* The HLDB entry editorSelectSyntaxHighlight picks for a filename
\* (vine.c 539-551, 558-562), as a position in HLDB, NoSyntax if none.
SelectedSyntax(name) ==
  IF name = NULL THEN NoSyntax
  ELSE LET hits == { j \in 1..HLDB_ENTRIES :
                       \E i \in 1..Len(HLDB[j].filematch) :
                          FileMatches(name, HLDB[j].filematch[i]) }
       IN IF hits = {} THEN NoSyntax
          ELSE CHOOSE j \in hits : \A k \in hits : j <= k

\* The loop of vine.c 554-556: editorUpdateSyntax on every row in order.
RECURSIVE UpdateAllFrom(_, _, _, _)
UpdateAllFrom(rows, numrows, syntax, filerow) ==
  IF filerow >= numrows THEN rows
  ELSE UpdateAllFrom(editorUpdateSyntax(rows, numrows, syntax, filerow),
                     numrows, syntax, filerow + 1)

\* editorSelectSyntaxHighlight without the loop over the rows.
editorSelectSyntaxHighlightNoUpdate(e) == [e EXCEPT !.syntax = SelectedSyntax(e.filename)]

\* editorSelectSyntaxHighlight (vine.c 538-563)
editorSelectSyntaxHighlight(e) ==
  LET syntax == SelectedSyntax(e.filename)
  IN IF syntax = NoSyntax THEN [e EXCEPT !.syntax = NoSyntax]
     ELSE [e EXCEPT !.syntax = syntax,
                    !.row = UpdateAllFrom(e.row, e.numrows, syntax, 0)]

\* The buffer as a row operation has it when editorUpdateRow calls
\* editorUpdateSyntax on row at (vine.c 612): the raw text and the render of
\* the row are new (those of the operation's result post), every highlight
\* and every open-comment flag is still the old one.
PreUpdate(e, post, at) ==
  editorUpdateRowNoSyntax([e EXCEPT !.row[at + 1].chars = post.row[at + 1].chars,
                                    !.row[at + 1].size = post.row[at + 1].size], at)

\* The rows scanned while editorInsertChar(c) runs, in the order of the
\* scans: with the cursor behind the last row editorInsertRow updates the
\* new row (vine.c 684, 632), while E.numrows is the old count and hl and the
\* flag of the new row are cleared (628-631); then editorRowInsertChar
\* updates the row of the cursor (686, 659).
HighlightedByInsertChar(e, c) ==
  LET onNew == e.cy = e.numrows
      e1    == IF onNew THEN editorInsertRow(e, e.numrows, <<>>) ELSE e
      rowsA == [e1.row EXCEPT ![e.numrows + 1].hl = <<>>,
                              ![e.numrows + 1].hl_open_comment = FALSE]
      first == IF onNew THEN CascadeRows(rowsA, e.numrows, e.syntax, e.numrows) ELSE <<>>
      post  == editorRowInsertChar(e1, e1.cy, e1.cx, c)
      pre   == PreUpdate(e1, post, e1.cy)
  IN first \o CascadeRows(pre.row, pre.numrows, pre.syntax, e1.cy)

\* ------------------------------------------------------------ editor operations

\* editorInsertChar(c) (vine.c 682-688)
editorInsertChar(e, c) ==
  LET e1 == IF e.cy = e.numrows THEN editorInsertRow(e, e.numrows, <<>>) ELSE e
      e2 == editorRowInsertChar(e1, e1.cy, e1.cx, c)
  IN [e2 EXCEPT !.cx = @ + 1]

\* editorInsertNewline (vine.c 690-703) dereferences E.row[E.cy] and takes
\* row->size - E.cx characters from &row->chars[E.cx]: with the cursor past
\* the last row, or past the end of its row, that is a use of freed or
\* unallocated memory and a negative length passed as a size_t.
NewlineUndefined(e) ==
  IF e.cx = 0 THEN FALSE
  ELSE IF e.cy >= e.numrows THEN TRUE
  ELSE e.cx > e.row[e.cy + 1].size

\* editorInsertNewline without the update of the row it cuts short.
editorInsertNewlineNoUpdate(e) ==
  LET r  == e.row[e.cy + 1]
      e1 == editorInsertRow(e, e.cy + 1, SubSeq(r.chars, e.cx + 1, r.size))
      e2 == [e1 EXCEPT !.row[e.cy + 1].size = e.cx,
                       !.row[e.cy + 1].chars = SubSeq(@, 1, e.cx)]
      e3 == IF e.cx = 0 THEN editorInsertRow(e, e.cy, <<>>) ELSE e2
  IN [e3 EXCEPT !.cy = @ + 1, !.cx = 0]

\* editorInsertNewline (vine.c 690-703), where it is defined.
editorInsertNewline(e) ==
  LET r  == e.row[e.cy + 1]
      e1 == editorInsertRow(e, e.cy + 1, SubSeq(r.chars, e.cx + 1, r.size))
      e2 == [e1 EXCEPT !.row[e.cy + 1].size = e.cx,
                       !.row[e.cy + 1].chars = SubSeq(@, 1, e.cx)]
      e3 == IF e.cx = 0 THEN editorInsertRow(e, e.cy, <<>>)
            ELSE editorUpdateRow(e2, e.cy)
  IN [e3 EXCEPT !.cy = @ + 1, !.cx = 0]

\* editorDelChar without the move of the cursor's column to the join point.
editorDelCharKeepColumn(e) ==
  IF e.cy = e.numrows \/ (e.cx = 0 /\ e.cy = 0) THEN e
  ELSE IF e.cx > 0
       THEN [editorRowDelChar(e, e.cy, e.cx - 1) EXCEPT !.cx = @ - 1]
       ELSE LET r  == e.row[e.cy + 1]
                e2 == editorRowAppendString(e, e.cy - 1, SubSeq(r.chars, 1, r.size))
                e3 == editorDelRow(e2, e.cy)
            IN [e3 EXCEPT !.cy = @ - 1]

\* editorDelChar (vine.c 705-719)
editorDelChar(e) ==
  IF e.cy = e.numrows \/ (e.cx = 0 /\ e.cy = 0) THEN e
  ELSE IF e.cx > 0
       THEN [editorRowDelChar(e, e.cy, e.cx - 1) EXCEPT !.cx = @ - 1]
       ELSE LET r  == e.row[e.cy + 1]
                e1 == [e EXCEPT !.cx = e.row[e.cy].size]
                e2 == editorRowAppendString(e1, e.cy - 1, SubSeq(r.chars, 1, r.size))
                e3 == editorDelRow(e2, e.cy)
            IN [e3 EXCEPT !.cy = @ - 1]

\* editorRowsToString (vine.c 723-740)
RECURSIVE RowsToStringFrom(_, _, _)
RowsToStringFrom(rows, numrows, j) ==
  IF j >= numrows THEN <<>>
  ELSE SubSeq(rows[j + 1].chars, 1, rows[j + 1].size) \o <<"\n">>
       \o RowsToStringFrom(rows, numrows, j + 1)

editorRowsToString(e) == RowsToStringFrom(e.row, e.numrows, 0)

\* ------------------------------------------------------------ cursor and viewport

\* The named keys of enum editorKey (vine.c 71-81) and the control keys the
\* handlers test for; a printable key is its character.
ARROW_LEFT == "ARROW_LEFT"
ARROW_RIGHT == "ARROW_RIGHT"
ARROW_UP == "ARROW_UP"
ARROW_DOWN == "ARROW_DOWN"
PAGE_UP == "PAGE_UP"
PAGE_DOWN == "PAGE_DOWN"
BACKSPACE == "BACKSPACE"
CTRL_X == "CTRL_X"
ESC == "ESC"
ENTER == "ENTER"

\* editorMoveCursor(key) (vine.c 1096-1133)
editorMoveCursor(e, key) ==
  LET hasrow == e.cy < e.numrows
      size   == e.row[e.cy + 1].size
      e1 == CASE key = ARROW_LEFT ->
                   IF e.cx # 0 THEN [e EXCEPT !.cx = @ - 1]
                   ELSE IF e.cy > 0
                        THEN [e EXCEPT !.cy = @ - 1, !.cx = e.row[e.cy].size]
                        ELSE e
              [] key = ARROW_RIGHT ->
                   IF hasrow /\ e.cx < size THEN [e EXCEPT !.cx = @ + 1]
                   ELSE IF hasrow /\ e.cx = size
                        THEN [e EXCEPT !.cy = @ + 1, !.cx = 0]
                        ELSE e
              [] key = ARROW_UP ->
                   IF e.cy # 0 THEN [e EXCEPT !.cy = @ - 1] ELSE e
              [] key = ARROW_DOWN ->
                   IF e.cy < e.numrows THEN [e EXCEPT !.cy = @ + 1] ELSE e
              [] OTHER -> e
      rowlen == IF e1.cy >= e1.numrows THEN 0 ELSE e1.row[e1.cy + 1].size
  IN IF e1.cx > rowlen THEN [e1 EXCEPT !.cx = rowlen] ELSE e1

\* The loop of vine.c 1194-1196: editorMoveCursor, times times.
RECURSIVE MoveCursorTimes(_, _, _)
MoveCursorTimes(e, key, times) ==
  IF times = 0 THEN e ELSE MoveCursorTimes(editorMoveCursor(e, key), key, times - 1)

\* The PAGE_UP / PAGE_DOWN case of editorProcessKeypress (vine.c 1184-1198)
PageKey(e, c) ==
  LET down == e.rowoff + e.screenrows - 1
      e1 == IF c = PAGE_UP THEN [e EXCEPT !.cy = e.rowoff]
            ELSE [e EXCEPT !.cy = IF down > e.numrows THEN e.numrows ELSE down]
  IN MoveCursorTimes(e1, IF c = PAGE_UP THEN ARROW_UP ELSE ARROW_DOWN, e.screenrows)

\* What editorRowCxToRx (vine.c 567-576) can return.  For cx <= size it is
\* the one value editorRowCxToRx(r, cx).  For cx > size the loop reads
\* chars[size], the terminating NUL, and then bytes past it that the row
\* does not own: each of them may or may not compare equal to a tab.
RECURSIVE RxPast(_, _)
RxPast(rxs, n) ==
  IF n = 0 THEN rxs
  ELSE RxPast({rx + 1 : rx \in rxs}
              \cup {rx + (TAB_STOP - 1) - (rx % TAB_STOP) + 1 : rx \in rxs}, n - 1)

RxOutcomes(r, cx) ==
  IF cx <= r.size THEN {editorRowCxToRx(r, cx)}
  ELSE RxPast({editorRowCxToRx(r, r.size) + 1}, cx - r.size - 1)

\* The values editorScroll can give E.rx (vine.c 896-899)
ScrollRx(e) == IF e.cy < e.numrows THEN RxOutcomes(e.row[e.cy + 1], e.cx) ELSE {0}

\* editorScroll (vine.c 895-916), with rx the value it gives E.rx
editorScroll(e, rx) ==
  LET rowoff1 == IF e.cy < e.rowoff THEN e.cy ELSE e.rowoff
      rowoff2 == IF e.cy >= rowoff1 + e.screenrows THEN e.cy - e.screenrows + 1
                 ELSE rowoff1
      coloff1 == IF rx < e.coloff THEN rx ELSE e.coloff
      coloff2 == IF rx >= coloff1 + e.screencols THEN rx - e.screencols + 1
                 ELSE coloff1
      coloff3 == IF rx >= coloff2 + e.screencols - VINE_LINE_NUMBER_PADDING - 1
                 THEN rx - e.screencols + VINE_LINE_NUMBER_PADDING + 2
                 ELSE coloff2
  IN [e EXCEPT !.rx = rx, !.rowoff = rowoff2, !.coloff = coloff3]

\* ------------------------------------------------------------ incremental search

\* The static locals of editorFindCallback (vine.c 800-804) are the record
\* [last_match, direction, saved_hl_line, saved_hl]; saved_hl = NULL is
\* NullHl, which is no highlight array.
NullHl == <<-1>>

FindInit == [last_match |-> -1, direction |-> 1, saved_hl_line |-> 0, saved_hl |-> NullHl]

\* The scan loop taking every step forward, whatever direction says.
RECURSIVE FindLoopForward(_, _, _, _, _)
FindLoopForward(e, query, current, direction, i) ==
  IF i >= e.numrows THEN -1
  ELSE LET step == current + 1
           cur  == IF step = e.numrows THEN 0 ELSE step
       IN IF Occurs(e.row[cur + 1].render, query) THEN cur
          ELSE FindLoopForward(e, query, cur, direction, i + 1)

\* The scan loop of editorFindCallback (vine.c 828-847): the loop has run i
\* times and stands at row current; the result is the first row that holds
\* the query, or -1 when numrows rows were tried without a match.
RECURSIVE FindLoop(_, _, _, _, _)
FindLoop(e, query, current, direction, i) ==
  IF i >= e.numrows THEN -1
  ELSE LET step == current + direction
           cur  == IF step = -1 THEN e.numrows - 1
                   ELSE IF step = e.numrows THEN 0 ELSE step
       IN IF Occurs(e.row[cur + 1].render, query) THEN cur
          ELSE FindLoop(e, query, cur, direction, i + 1)

\* editorFindCallback without the memcpy that puts the saved highlight back.
editorFindCallbackNoRestore(e, f, query, key) ==
  LET e1 == e
      f1 == [f EXCEPT !.saved_hl = NullHl]
      f2 == IF key \in {ARROW_RIGHT, ARROW_DOWN} THEN [f1 EXCEPT !.direction = 1]
            ELSE IF key \in {ARROW_LEFT, ARROW_UP} THEN [f1 EXCEPT !.direction = -1]
            ELSE [f1 EXCEPT !.last_match = -1, !.direction = 1]
      dir == IF f2.last_match = -1 THEN 1 ELSE f2.direction
      current == FindLoop(e1, query, f2.last_match, dir, 0)
      r  == e1.row[current + 1]
      at == FirstOccurrence(r.render, query)
  IN IF key \in {ENTER, ESC}
     THEN [e |-> e1, f |-> [f1 EXCEPT !.last_match = -1, !.direction = 1]]
     ELSE IF current = -1
          THEN [e |-> e1, f |-> [f2 EXCEPT !.direction = dir]]
          ELSE [e |-> [e1 EXCEPT !.cy = current,
                                 !.cx = editorRowRxToCx(r, at),
                                 !.rowoff = e1.numrows,
                                 !.row[current + 1].hl = memset(@, at, HL_MATCH, Len(query))],
                f |-> [last_match |-> current, direction |-> dir,
                       saved_hl_line |-> current, saved_hl |-> r.hl]]

\* editorFindCallback that leaves last_match and direction as they are on
\* Enter and Escape.
editorFindCallbackNoReset(e, f, query, key) ==
  LET e1 == IF f.saved_hl # NullHl
            THEN [e EXCEPT !.row[f.saved_hl_line + 1].hl =
                    [k \in 1..Len(@) |->
                       IF k <= e.row[f.saved_hl_line + 1].rsize THEN f.saved_hl[k] ELSE @[k]]]
            ELSE e
      f1 == [f EXCEPT !.saved_hl = NullHl]
      f2 == IF key \in {ARROW_RIGHT, ARROW_DOWN} THEN [f1 EXCEPT !.direction = 1]
            ELSE IF key \in {ARROW_LEFT, ARROW_UP} THEN [f1 EXCEPT !.direction = -1]
            ELSE [f1 EXCEPT !.last_match = -1, !.direction = 1]
      dir == IF f2.last_match = -1 THEN 1 ELSE f2.direction
      current == FindLoop(e1, query, f2.last_match, dir, 0)
      r  == e1.row[current + 1]
      at == FirstOccurrence(r.render, query)
  IN IF key \in {ENTER, ESC}
     THEN [e |-> e1, f |-> f1]
     ELSE IF current = -1
          THEN [e |-> e1, f |-> [f2 EXCEPT !.direction = dir]]
          ELSE [e |-> [e1 EXCEPT !.cy = current,
                                 !.cx = editorRowRxToCx(r, at),
                                 !.rowoff = e1.numrows,
                                 !.row[current + 1].hl = memset(@, at, HL_MATCH, Len(query))],
                f |-> [last_match |-> current, direction |-> dir,
                       saved_hl_line |-> current, saved_hl |-> r.hl]]

\* editorFindCallback(query, key) (vine.c 799-848): the editor state and the
\* statics, [e, f], when it returns.
editorFindCallback(e, f, query, key) ==
  LET e1 == IF f.saved_hl # NullHl
            THEN [e EXCEPT !.row[f.saved_hl_line + 1].hl =
                    [k \in 1..Len(@) |->
                       IF k <= e.row[f.saved_hl_line + 1].rsize THEN f.saved_hl[k] ELSE @[k]]]
            ELSE e
      f1 == [f EXCEPT !.saved_hl = NullHl]
      f2 == IF key \in {ARROW_RIGHT, ARROW_DOWN} THEN [f1 EXCEPT !.direction = 1]
            ELSE IF key \in {ARROW_LEFT, ARROW_UP} THEN [f1 EXCEPT !.direction = -1]
            ELSE [f1 EXCEPT !.last_match = -1, !.direction = 1]
      dir == IF f2.last_match = -1 THEN 1 ELSE f2.direction
      current == FindLoop(e1, query, f2.last_match, dir, 0)
      r  == e1.row[current + 1]
      at == FirstOccurrence(r.render, query)
  IN IF key \in {ENTER, ESC}
     THEN [e |-> e1, f |-> [f1 EXCEPT !.last_match = -1, !.direction = 1]]
     ELSE IF current = -1
          THEN [e |-> e1, f |-> [f2 EXCEPT !.direction = dir]]
          ELSE [e |-> [e1 EXCEPT !.cy = current,
                                 !.cx = editorRowRxToCx(r, at),
                                 !.rowoff = e1.numrows,
                                 !.row[current + 1].hl = memset(@, at, HL_MATCH, Len(query))],
                f |-> [last_match |-> current, direction |-> dir,
                       saved_hl_line |-> current, saved_hl |-> r.hl]]

\* ------------------------------------------------------------ file load

\* getline on the bytes data from read position pos (0-based): the position
\* just past the line it returns, which ends with the first "\n" at or
\* after pos, or with the file.
RECURSIVE LineEnd(_, _)
LineEnd(data, pos) ==
  IF pos >= Len(data) THEN pos
  ELSE IF data[pos + 1] = "\n" THEN pos + 1
  ELSE LineEnd(data, pos + 1)

\* The inner loop of editorOpen as a single test: one byte is dropped.
StripLenOnce(line, linelen) ==
  IF linelen > 0 /\ line[linelen] \in {"\n", "\r"} THEN linelen - 1 ELSE linelen

\* The inner loop of editorOpen (vine.c 758-760): linelen after the
\* trailing "\n" and "\r" bytes of line are dropped.
RECURSIVE StripLen(_, _)
StripLen(line, linelen) ==
  IF linelen > 0 /\ line[linelen] \in {"\n", "\r"} THEN StripLen(line, linelen - 1)
  ELSE linelen

\* The getline loop of editorOpen (vine.c 757-762) from read position pos.
RECURSIVE OpenLoop(_, _, _)
OpenLoop(e, data, pos) ==
  IF pos >= Len(data) THEN e
  ELSE LET end  == LineEnd(data, pos)
           line == SubSeq(data, pos + 1, end)
       IN OpenLoop(editorInsertRow(e, e.numrows, SubSeq(line, 1, StripLen(line, Len(line)))),
                   data, end)

\* editorOpen(filename) (vine.c 742-766) on a file f = [name, exists, data]:
\* fopen fails when the file does not exist.
editorOpen(e, f) ==
  LET e1 == editorSelectSyntaxHighlight([e EXCEPT !.filename = f.name])
  IN IF ~f.exists THEN e1
     ELSE [OpenLoop(e1, f.data, 0) EXCEPT !.dirty = 0]

\* ------------------------------------------------------------ bounds

\* All sequences over S of length at most n.
SeqsUpTo(S, n) == UNION {[1..k -> S] : k \in 0..n}

\* The file whose lines are lines, each ended by "\n".
RECURSIVE JoinLines(_)
JoinLines(lines) ==
  IF lines = <<>> THEN <<>> ELSE Head(lines) \o <<"\n">> \o JoinLines(Tail(lines))

\* The characters a key press brings into a row.
Chars == {"/", "*", "\t"}

\* The characters typed into the search prompt, and the names typed into
\* the save-as prompt.
QueryChars == {"/", "a"}

SaveNames == {<<".", "c">>, <<"c">>}

\* Buffer modifications (increments of E.dirty) in one session, and
\* characters typed into the search prompt.
MaxEdits == 2

MaxPrompt == 2

\* The files a session starts on: at most MaxRows lines out of StartLines.
StartLines == {<<"/", "*">>, <<"*", "/">>, <<"a">>}

MaxRows == 3

\* The window getWindowSize reports, less the two status lines (vine.c
\* 1265-1266).
ScreenRows == 2

ScreenCols == 8

\* ------------------------------------------------------------ state

\* E          struct editorConfig E (vine.c 129-148)
\* mode       where the program stands: "start" on entry to main, "edit" in
\*            main's loop before editorReadKey, "find" and "saveas" in
\*            editorPrompt's loop before editorReadKey, "exited" after
\*            exit(0), "crashed" after an undefined memory access
\* buf        editorPrompt's buffer
\* find       the statics of editorFindCallback
\* saved      the locals saved_cx, saved_cy, saved_coloff, saved_rowoff of
\*            editorFind
\* quit_times the static of editorProcessKeypress
\* presses    the number of Ctrl-Q presses read in a row up to now, each
\*            answered by the warning (a record of the keys read, not a
\*            variable of the program)
\* file       the command line and the file it names: [arg, name, exists,
\*            data], arg telling whether a file argument is given
\* edits      the number of buffer modifications so far (what E.dirty would
\*            be if nothing reset it)
VARIABLES E, mode, buf, find, saved, quit_times, presses, file, edits

vars == <<E, mode, buf, find, saved, quit_times, presses, file, edits>>

NoSaved == [cx |-> 0, cy |-> 0, coloff |-> 0, rowoff |-> 0]

NoArg == [arg |-> FALSE, name |-> NULL, exists |-> FALSE, data |-> <<>>]

CFile(data) == [arg |-> TRUE, name |-> <<"a", ".", "c">>, exists |-> TRUE, data |-> data]

\* initEditor (vine.c 1249-1267)
initEditor ==
  [cx |-> 0, cy |-> 0, rx |-> 0, rowoff |-> 0, coloff |-> 0,
   screenrows |-> ScreenRows, screencols |-> ScreenCols,
   numrows |-> 0, row |-> <<>>, dirty |-> 0, filename |-> NULL,
   statusmsg |-> "", syntax |-> NoSyntax]

\* editorRefreshScreen (vine.c 1024-1047) changes E through editorScroll
\* only: the states it can leave.
Refresh(e) == {editorScroll(e, rx) : rx \in ScrollRx(e)}

\* The program before main runs, given the files it may be started on.
InitOn(files) ==
  /\ file \in files
  /\ E = initEditor
  /\ mode = "start"
  /\ buf = <<>>
  /\ find = FindInit
  /\ saved = NoSaved
  /\ quit_times = VINE_QUIT_TIMES
  /\ presses = 0
  /\ edits = 0

StartFiles == {NoArg} \cup {CFile(JoinLines(ls)) : ls \in SeqsUpTo(StartLines, MaxRows)}

Init == InitOn(StartFiles)

\* main (vine.c 1269-1283) up to the first editorReadKey
Main ==
  /\ mode = "start"
  /\ mode' = "edit"
  /\ E' \in Refresh([(IF file.arg THEN editorOpen(E, file) ELSE E)
                       EXCEPT !.statusmsg = "HELP"])
  /\ UNCHANGED <<buf, find, saved, quit_times, presses, file, edits>>

\* ------------------------------------------------------------ key presses

\* One turn of main's loop from editorReadKey on: editorProcessKeypress on
\* a key whose handler leaves the editor state e, then the next
\* editorRefreshScreen.  max bounds the buffer modifications of the session:
\* the keys that modify the buffer are taken while edits < max.
Handled(e, max) ==
  LET e1 == e
      modified == IF e1.dirty # E.dirty THEN 1 ELSE 0
  IN /\ mode = "edit"
     /\ edits + modified <= max
     /\ edits' = edits + modified
     /\ E' \in Refresh(e1)
     /\ quit_times' = QUIT_TIMES
     /\ presses' = 0
     /\ UNCHANGED <<mode, buf, find, saved, file>>

\* default: editorInsertChar(c) (vine.c 1211-1213)
KeyChar(c, max) ==
  /\ mode = "edit"
  /\ edits < max
  /\ Handled(editorInsertChar(E, c), max)

\* case '\r' (vine.c 1141-1143)
KeyEnter(max) ==
  /\ mode = "edit"
  /\ edits < max
  /\ ~NewlineUndefined(E)
  /\ Handled(editorInsertNewline(E), max)

\* case '\r' with the cursor where editorInsertNewline is undefined
KeyEnterUndefined ==
  /\ mode = "edit"
  /\ NewlineUndefined(E)
  /\ mode' = "crashed"
  /\ UNCHANGED <<E, buf, find, saved, quit_times, presses, file, edits>>

\* case BACKSPACE (vine.c 1178-1182)
KeyBackspace(max) ==
  /\ mode = "edit"
  /\ edits < max
  /\ Handled(editorDelChar(E), max)

\* case CTRL_KEY('x') (vine.c 1179-1182)
KeyCtrlX(max) ==
  /\ mode = "edit"
  /\ edits < max
  /\ Handled(editorDelChar(editorMoveCursor(E, ARROW_RIGHT)), max)

\* case CTRL_KEY('d') (vine.c 1170-1172)
KeyCtrlD(max) ==
  /\ mode = "edit"
  /\ edits < max
  /\ Handled(editorDelRow(E, E.cy), max)

\* case ARROW_UP ... ARROW_RIGHT (vine.c 1200-1205)
KeyArrow(key) ==
  /\ mode = "edit"
  /\ Handled(editorMoveCursor(E, key), edits)

\* case PAGE_UP, PAGE_DOWN (vine.c 1184-1198)
KeyPage(key) ==
  /\ mode = "edit"
  /\ Handled(PageKey(E, key), edits)

\* case CTRL_KEY('j') (vine.c 1161-1163)
KeyCtrlJ ==
  /\ mode = "edit"
  /\ Handled([E EXCEPT !.cx = 0], edits)

\* case CTRL_KEY('k') (vine.c 1165-1168)
KeyCtrlK ==
  /\ mode = "edit"
  /\ Handled(IF E.cy < E.numrows THEN [E EXCEPT !.cx = E.row[E.cy + 1].size] ELSE E, edits)

\* case CTRL_KEY('l'), '\x1b' (vine.c 1207-1209)
KeyNone ==
  /\ mode = "edit"
  /\ Handled(E, edits)

\* The test of case CTRL_KEY('q') that lets a single warning stand for all.
QuitWarnsOnce(e, qt) == e.dirty # 0 /\ qt = QUIT_TIMES

\* The test of case CTRL_KEY('q') (vine.c 1146): the key is answered by the
\* warning.
QuitWarns(e, qt) == e.dirty # 0 /\ qt > 0

\* case CTRL_KEY('q') (vine.c 1145-1155)
KeyCtrlQ ==
  /\ mode = "edit"
  /\ IF QuitWarns(E, quit_times)
     THEN /\ E' \in Refresh([E EXCEPT !.statusmsg = "WARNING"])
          /\ quit_times' = quit_times - 1
          /\ presses' = presses + 1
          /\ UNCHANGED mode
     ELSE /\ mode' = "exited"
          /\ UNCHANGED <<E, quit_times, presses>>
  /\ UNCHANGED <<buf, find, saved, file, edits>>

\* ------------------------------------------------------------ save

\* The part of editorSave after the filename is known (vine.c 778-796):
\* ok tells whether open, ftruncate and write all succeed.
SaveWrite(e, ok) ==
  IF ok THEN [e EXCEPT !.dirty = 0, !.statusmsg = "bytes written to disk"]
  ELSE [e EXCEPT !.statusmsg = "[ERROR] Can't save!"]

\* case CTRL_KEY('s') (vine.c 1157-1159) with a filename: editorSave writes.
KeyCtrlS(ok) ==
  /\ mode = "edit"
  /\ E.filename # NULL
  /\ E' \in Refresh(SaveWrite(E, ok))
  /\ quit_times' = QUIT_TIMES
  /\ presses' = 0
  /\ UNCHANGED <<mode, buf, find, saved, file, edits>>

\* case CTRL_KEY('s') without a filename: editorSave enters editorPrompt
\* (vine.c 769-770, 1058-1067).
KeyCtrlSPrompt ==
  /\ mode = "edit"
  /\ E.filename = NULL
  /\ mode' = "saveas"
  /\ buf' = <<>>
  /\ E' \in Refresh([E EXCEPT !.statusmsg = "Save as"])
  /\ presses' = 0
  /\ UNCHANGED <<find, saved, quit_times, file, edits>>

\* editorPrompt without a callback: a printable key (vine.c 1083-1090).
\* The keys typed spell one of SaveNames.
SaveAsChar(c) ==
  /\ mode = "saveas"
  /\ \E name \in SaveNames :
       Len(buf) < Len(name) /\ Append(buf, c) = SubSeq(name, 1, Len(buf) + 1)
  /\ buf' = Append(buf, c)
  /\ E' \in Refresh(E)
  /\ UNCHANGED <<mode, find, saved, quit_times, presses, file, edits>>

\* Ctrl-X or Backspace in the prompt (vine.c 1070-1071)
SaveAsBackspace ==
  /\ mode = "saveas"
  /\ buf' = IF Len(buf) # 0 THEN SubSeq(buf, 1, Len(buf) - 1) ELSE buf
  /\ E' \in Refresh(E)
  /\ UNCHANGED <<mode, find, saved, quit_times, presses, file, edits>>

\* Escape in the prompt (vine.c 1072-1076): editorSave gives up (vine.c
\* 771-774) and editorProcessKeypress returns.
SaveAsEsc ==
  /\ mode = "saveas"
  /\ mode' = "edit"
  /\ buf' = <<>>
  /\ E' \in Refresh([E EXCEPT !.statusmsg = "Save aborted"])
  /\ quit_times' = QUIT_TIMES
  /\ presses' = 0
  /\ UNCHANGED <<find, saved, file, edits>>

\* Enter in the prompt (vine.c 1077-1082): with a non-empty buffer the
\* prompt returns it, editorSave takes it as the filename, selects the
\* syntax and writes (vine.c 770-796).
SaveAsEnter(ok) ==
  /\ mode = "saveas"
  /\ IF Len(buf) # 0
     THEN /\ mode' = "edit"
          /\ buf' = <<>>
          /\ E' \in Refresh(SaveWrite(editorSelectSyntaxHighlight(
                                        [E EXCEPT !.filename = buf, !.statusmsg = ""]), ok))
          /\ quit_times' = QUIT_TIMES
          /\ presses' = 0
     ELSE /\ E' \in Refresh(E)
          /\ UNCHANGED <<mode, buf, quit_times, presses>>
  /\ UNCHANGED <<find, saved, file, edits>>

\* ------------------------------------------------------------ find

\* case CTRL_KEY('f') (vine.c 1174-1176): editorFind saves the cursor and
\* enters editorPrompt (vine.c 851-857, 1058-1067).
KeyCtrlF ==
  /\ mode = "edit"
  /\ mode' = "find"
  /\ buf' = <<>>
  /\ saved' = [cx |-> E.cx, cy |-> E.cy, coloff |-> E.coloff, rowoff |-> E.rowoff]
  /\ E' \in Refresh([E EXCEPT !.statusmsg = "Search"])
  /\ presses' = 0
  /\ UNCHANGED <<find, quit_times, file, edits>>

\* A key that leaves the prompt's loop running: the buffer becomes query,
\* the callback runs on it (vine.c 1092), and the loop refreshes the screen.
FindStep(query, key) ==
  LET res == editorFindCallback(E, find, query, key)
  IN /\ mode = "find"
     /\ buf' = query
     /\ find' = res.f
     /\ E' \in Refresh(res.e)
     /\ UNCHANGED <<mode, saved, quit_times, presses, file, edits>>

\* A printable key (vine.c 1083-1092)
FindChar(c) ==
  /\ mode = "find"
  /\ Len(buf) < MaxPrompt
  /\ FindStep(Append(buf, c), c)

\* Ctrl-X or Backspace (vine.c 1070-1071, 1092)
FindBackspace ==
  /\ mode = "find"
  /\ FindStep(IF Len(buf) # 0 THEN SubSeq(buf, 1, Len(buf) - 1) ELSE buf, BACKSPACE)

\* An arrow key (vine.c 1092)
FindArrow(key) ==
  /\ mode = "find"
  /\ FindStep(buf, key)

\* Enter on an empty buffer (vine.c 1077-1078, 1092)
FindEnterEmpty ==
  /\ mode = "find"
  /\ Len(buf) = 0
  /\ FindStep(buf, ENTER)

\* Enter on a non-empty buffer (vine.c 1077-1082): the callback runs, the
\* prompt returns the query, editorFind frees it (vine.c 859-860).
FindEnter ==
  /\ mode = "find"
  /\ Len(buf) # 0
  /\ LET res == editorFindCallback(E, find, buf, ENTER)
     IN /\ find' = res.f
        /\ E' \in Refresh([res.e EXCEPT !.statusmsg = ""])
  /\ mode' = "edit"
  /\ buf' = <<>>
  /\ saved' = NoSaved
  /\ quit_times' = QUIT_TIMES
  /\ presses' = 0
  /\ UNCHANGED <<file, edits>>

\* editorFind that leaves the cursor where the search put it.
editorFindCancelledKeepCursor(e, sv) == e

\* editorFind after the prompt has returned NULL (vine.c 861-866): the saved
\* cursor and offsets sv are assigned back.
editorFindCancelled(e, sv) ==
  [e EXCEPT !.cx = sv.cx, !.cy = sv.cy, !.coloff = sv.coloff, !.rowoff = sv.rowoff]

\* Escape (vine.c 1072-1076): the callback runs, the prompt returns NULL,
\* editorFind puts the saved cursor and offsets back (vine.c 861-866).
FindEsc ==
  /\ mode = "find"
  /\ LET res == editorFindCallback(E, find, buf, ESC)
     IN /\ find' = res.f
        /\ E' \in Refresh(editorFindCancelled([res.e EXCEPT !.statusmsg = ""], saved))
  /\ mode' = "edit"
  /\ buf' = <<>>
  /\ saved' = NoSaved
  /\ quit_times' = QUIT_TIMES
  /\ presses' = 0
  /\ UNCHANGED <<file, edits>>

\* ------------------------------------------------------------ specifications

\* The keys that edit the buffer, with at most max modifications in all.
EditKeys(max) ==
  \/ \E c \in Chars : KeyChar(c, max)
  \/ KeyEnter(max)
  \/ KeyEnterUndefined
  \/ KeyBackspace(max)
  \/ KeyCtrlX(max)
  \/ KeyCtrlD(max)

\* The keys that move the cursor.
MoveKeys ==
  \/ \E key \in {ARROW_LEFT, ARROW_RIGHT, ARROW_UP, ARROW_DOWN} : KeyArrow(key)
  \/ \E key \in {PAGE_UP, PAGE_DOWN} : KeyPage(key)
  \/ KeyCtrlJ
  \/ KeyCtrlK
  \/ KeyNone

\* The editor started on a small file and edited.
Next ==
  \/ Main
  \/ EditKeys(MaxEdits)
  \/ MoveKeys

Spec == Init /\ [][Next]_vars

\* The keys of the save prompt and of Ctrl-S.
SaveKeys ==
  \/ \E ok \in BOOLEAN : KeyCtrlS(ok)
  \/ KeyCtrlSPrompt
  \/ \E name \in SaveNames : \E k \in 1..Len(name) : SaveAsChar(name[k])
  \/ SaveAsBackspace
  \/ SaveAsEsc
  \/ \E ok \in BOOLEAN : SaveAsEnter(ok)

\* The keys of the search prompt and of Ctrl-F.
FindKeys ==
  \/ KeyCtrlF
  \/ \E c \in QueryChars : FindChar(c)
  \/ FindBackspace
  \/ \E key \in {ARROW_LEFT, ARROW_RIGHT, ARROW_UP, ARROW_DOWN} : FindArrow(key)
  \/ FindEnterEmpty
  \/ FindEnter
  \/ FindEsc

\* The whole keyboard, on smaller files and with fewer modifications.
MaxEditsFull == 1

MaxRowsFull == 2

FullLines == {<<"/", "*">>, <<"a">>}

FullFiles == {NoArg} \cup {CFile(JoinLines(ls)) : ls \in SeqsUpTo(FullLines, MaxRowsFull)}

InitFull == InitOn(FullFiles)

NextFull ==
  \/ Main
  \/ EditKeys(MaxEditsFull)
  \/ MoveKeys
  \/ SaveKeys
  \/ FindKeys
  \/ KeyCtrlQ

SpecFull == InitFull /\ [][NextFull]_vars

\* One modification of a file out of a wider family: every buffer that is
\* highlighted as a fresh pass highlights it is the buffer of a loaded file,
\* so one modification from every loaded buffer covers every such buffer up
\* to the size of the files.
WideLines == {<<>>, <<"/">>, <<"*">>, <<"a">>, <<"/", "/">>, <<"/", "*">>,
              <<"*", "/">>, <<"*", "*">>}

MaxWideRows == 3

MaxEditsWide == 1

WideFiles == {CFile(JoinLines(ls)) : ls \in SeqsUpTo(WideLines, MaxWideRows)}

InitWide == InitOn(WideFiles)

NextWide ==
  \/ Main
  \/ EditKeys(MaxEditsWide)
  \/ MoveKeys

SpecWide == InitWide /\ [][NextWide]_vars

\* Files of a few bytes, tabs and line ends among them, loaded and looked
\* at with the cursor keys.
FileBytes == {"a", "b", "\t", "\r", "\n"}

MaxFileLen == 4

ByteFiles == {CFile(d) : d \in SeqsUpTo(FileBytes, MaxFileLen)}

InitView == InitOn(ByteFiles)

NextView ==
  \/ Main
  \/ MoveKeys

SpecView == InitView /\ [][NextView]_vars

\* Source files loaded and highlighted: rows of comment markers, and single
\* lines around the keywords "if" and "for".
CommentChars == {"/", "*", "a"}

MaxCommentLen == 2

MaxCommentRows == 4

CommentFiles ==
  {CFile(JoinLines(ls)) : ls \in SeqsUpTo(SeqsUpTo(CommentChars, MaxCommentLen), MaxCommentRows)}

\* Rows whose end marker has text, or the start of a further comment,
\* behind it.
LongLines == {<<"/", "*">>, <<"*", "/", "/", "*">>, <<"*", "/", "a">>, <<"a">>}

LongCommentFiles == {CFile(JoinLines(ls)) : ls \in SeqsUpTo(LongLines, MaxCommentRows - 1)}

KeywordChars == {"i", "f", " ", "\"", "1"}

MaxKeywordLen == 5

KeywordFiles ==
  {CFile(l \o <<"\n">>) :
     l \in SeqsUpTo(KeywordChars, MaxKeywordLen)
             \cup {<<"f", "o", "r", "w", "a", "r", "d">>,
                   <<"f", "o", "r", " ", "(", "x", ")">>}}

InitLoad == InitOn(CommentFiles \cup LongCommentFiles \cup KeywordFiles)

NextLoad == Main

SpecLoad == InitLoad /\ [][NextLoad]_vars

\* Files under many names, loaded: every name of up to MaxNameLen characters
\* out of NameChars, and names that match more than one registry entry or
\* carry a second dot.
NameChars == {".", "c", "p", "y", "i"}

MaxNameLen == 5

LongNames ==
  {<<"p", "y", "i", ".", "g", "o">>, <<"p", "y", "i", ".", "r", "s">>,
   <<"p", "y", "x", ".", "h", "p", "p">>, <<"m", ".", "g", "o">>, <<"m", ".", "r", "s">>,
   <<"m", ".", "r", "s", ".", "g", "o">>, <<"m", ".", "g", "o", ".", "r", "s">>,
   <<"m", ".", "c", ".", "t", "x", "t">>, <<"m", ".", "i", "p", "y", "n", "b">>,
   <<"m", ".", "c", "x", "x">>, <<"g", "o">>, <<"m", "c">>}

NamedFile(name) ==
  [arg |-> TRUE, name |-> name, exists |-> TRUE, data |-> <<"/", "*", "\n", "#", "\n">>]

NameFiles ==
  {NoArg} \cup {NamedFile(n) : n \in (SeqsUpTo(NameChars, MaxNameLen) \ {<<>>}) \cup LongNames}

InitNames == InitOn(NameFiles)

NextNames == Main

SpecNames == InitNames /\ [][NextNames]_vars

\* Search sessions over files of up to MaxFindRows rows, rows with a tab
\* and rows without a match among them; the buffer is not modified.
FindLines == {<<"a">>, <<"/", "a">>, <<"\t", "a", "/">>, <<"*">>}

MaxFindRows == 3

FindFiles == {CFile(JoinLines(ls)) : ls \in SeqsUpTo(FindLines, MaxFindRows)}

InitFind == InitOn(FindFiles)

NextFind ==
  \/ Main
  \/ FindKeys

SpecFind == InitFind /\ [][NextFind]_vars

\* The editor on terminals of other sizes: getWindowSize (vine.c 1265-1266)
\* reports any window, so that screenrows and screencols are any positive
\* numbers up to MaxScreenRows and MaxScreenCols; files with tabs are
\* loaded and looked at with the cursor keys.
MaxScreenRows == 3

MaxScreenCols == 8

ScreenLines == {<<"\t", "a", "\t">>, <<"a", "b">>, <<>>}

MaxScreenFileRows == 3

ScreenFiles == {CFile(JoinLines(ls)) : ls \in SeqsUpTo(ScreenLines, MaxScreenFileRows)}

InitScreen ==
  /\ file \in ScreenFiles
  /\ E \in {[initEditor EXCEPT !.screenrows = r, !.screencols = c] :
              r \in 1..MaxScreenRows, c \in 1..MaxScreenCols}
  /\ mode = "start"
  /\ buf = <<>>
  /\ find = FindInit
  /\ saved = NoSaved
  /\ quit_times = VINE_QUIT_TIMES
  /\ presses = 0
  /\ edits = 0

NextScreen ==
  \/ Main
  \/ MoveKeys

SpecScreen == InitScreen /\ [][NextScreen]_vars

\* An unnamed buffer typed into and then saved under a name: the editor is
\* started without a file, takes up to MaxEditsSaveAs modifications and the
\* keys of Ctrl-S and its prompt.
MaxEditsSaveAs == 4

InitSaveAs == InitOn({NoArg})

NextSaveAs ==
  \/ Main
  \/ EditKeys(MaxEditsSaveAs)
  \/ SaveKeys

SpecSaveAs == InitSaveAs /\ [][NextSaveAs]_vars

\* Buffers without a syntax: the editor started without a file, or on a file
\* whose name no HLDB entry matches, with the whole keyboard but Ctrl-Q.
PlainFile(data) == [arg |-> TRUE, name |-> <<"c">>, exists |-> TRUE, data |-> data]

MaxEditsPlain == 1

MaxPlainRows == 2

PlainFiles == {NoArg} \cup {PlainFile(JoinLines(ls)) : ls \in SeqsUpTo(FullLines, MaxPlainRows)}

InitPlain == InitOn(PlainFiles)

NextPlain ==
  \/ Main
  \/ EditKeys(MaxEditsPlain)
  \/ MoveKeys
  \/ SaveKeys
  \/ FindKeys

SpecPlain == InitPlain /\ [][NextPlain]_vars

\* Files of comment markers and files of keywords, strings and numbers,
\* looked at and modified once.
RecomputeTokens ==
  {<<"a", "u", "t", "o">>, <<"i", "n", "t">>, <<"x">>, <<"1">>, <<".">>, <<" ">>,
   <<"\"">>, <<"\\">>, <<"/", "*">>, <<"/", "/">>}

RecomputeFiles ==
  WideFiles \cup {CFile(JoinLines(<<t1 \o t2>>)) :
                    t1 \in RecomputeTokens, t2 \in RecomputeTokens \cup {<<>>}}

InitRecompute == InitOn(RecomputeFiles)

NextRecompute ==
  \/ Main
  \/ EditKeys(MaxEditsWide)
  \/ MoveKeys

SpecRecompute == InitRecompute /\ [][NextRecompute]_vars

\* ------------------------------------------------------------ reference definitions

\* A from-scratch highlighting pass over rows k .. numrows - 1 (0-based) in
\* order: each row is scanned from its render string, seeded with the
\* carried-out flag of its predecessor (seed for row k).  It yields, per
\* row, the highlight array and the carried-out flag.
RECURSIVE FreshFrom(_, _, _, _, _)
FreshFrom(rows, numrows, syntax, k, seed) ==
  IF k >= numrows THEN <<>>
  ELSE LET r   == rows[k + 1]
           hl0 == [i \in 1..Len(r.render) |-> HL_NORMAL]
           res == IF syntax = NoSyntax THEN [hl |-> hl0, in_comment |-> FALSE]
                  ELSE ScanLoop(r, HLDB[syntax], Keywords[syntax], 0, hl0, TRUE, NoString, seed)
       IN <<res>> \o FreshFrom(rows, numrows, syntax, k + 1, res.in_comment)

Fresh(e) == FreshFrom(e.row, e.numrows, e.syntax, 0, FALSE)

\* Rows r .. numrows - 1 (0-based) of e are highlighted, and flagged, as
\* the from-scratch pass highlights and flags them.
ConsistentFrom(e, r) ==
  LET fresh == Fresh(e)
  IN \A k \in r..(e.numrows - 1) :
       /\ e.row[k + 1].hl = fresh[k + 1].hl
       /\ e.row[k + 1].hl_open_comment = fresh[k + 1].in_comment

Consistent(e) == ConsistentFrom(e, 0)

\* The tab expansion of a raw string as the row's description states it:
\* every tab becomes the spaces that reach the next multiple of TAB_STOP,
\* every other character is copied.
RECURSIVE Expand(_)
Expand(chars) ==
  IF chars = <<>> THEN <<>>
  ELSE LET front == Expand(SubSeq(chars, 1, Len(chars) - 1))
           last  == chars[Len(chars)]
       IN IF last = "\t"
          THEN front \o [k \in 1..(TAB_STOP - (Len(front) % TAB_STOP)) |-> " "]
          ELSE Append(front, last)

\* The lines getline hands out of the bytes of a file: each runs up to and
\* including the next line feed, the last one to the end of the file.
RECURSIVE FileLines(_)
FileLines(data) ==
  IF data = <<>> THEN <<>>
  ELSE LET lfs == {i \in 1..Len(data) : data[i] = "\n"}
           end == IF lfs = {} THEN Len(data) ELSE CHOOSE i \in lfs : \A k \in lfs : i <= k
       IN <<SubSeq(data, 1, end)>> \o FileLines(SubSeq(data, end + 1, Len(data)))

\* A line without its line terminator: without the LF or CR LF it ends in.
WithoutTerminator(line) ==
  LET n == Len(line)
  IN IF n >= 2 /\ line[n - 1] = "\r" /\ line[n] = "\n" THEN SubSeq(line, 1, n - 2)
     ELSE IF n >= 1 /\ line[n] = "\n" THEN SubSeq(line, 1, n - 1)
     ELSE line

\* A line without any of the CR and LF bytes it ends in.
RECURSIVE WithoutLineEnds(_)
WithoutLineEnds(line) ==
  IF line # <<>> /\ line[Len(line)] \in {"\r", "\n"}
  THEN WithoutLineEnds(SubSeq(line, 1, Len(line) - 1))
  ELSE line

\* The sequences of seqs one after the other.
RECURSIVE Concat(_)
Concat(seqs) == IF seqs = <<>> THEN <<>> ELSE Head(seqs) \o Concat(Tail(seqs))

\* The lines of lines, each followed by one newline byte.
Rejoin(lines) == Concat([i \in 1..Len(lines) |-> lines[i] \o <<"\n">>])

\* The position p of r is at a separator boundary: the start of the line or
\* right after a separator character.
AtSeparatorBoundary(r, p) == p = 0 \/ is_separator(r.render[p])

\* ... or right after the closing quote of a string or the end marker of a
\* multi-line comment of syntax syn.
AtScanBoundary(r, p, syn) ==
  \/ AtSeparatorBoundary(r, p)
  \/ r.hl[p] = HL_STRING /\ r.render[p] \in {"\"", "'"}
  \/ /\ r.hl[p] = HL_MLCOMMENT
     /\ p >= Len(syn.multiline_comment_end)
     /\ MatchAt(r.render, p - Len(syn.multiline_comment_end), syn.multiline_comment_end)

\* The positions of row r that a keyword occurrence of syntax covers which
\* starts at a separator boundary (at a scan boundary, if scan is TRUE) and
\* is followed by a separator or the end of the line.
KeywordSlots(r, syntax, scan) ==
  LET keywords == Keywords[syntax]
  IN { q \in 1..r.rsize :
         \E j \in 1..Len(keywords) : \E p \in 0..(q - 1) :
           /\ q <= p + keywords[j].klen
           /\ MatchAt(r.render, p, keywords[j].word)
           /\ IF scan THEN AtScanBoundary(r, p, HLDB[syntax])
              ELSE AtSeparatorBoundary(r, p)
           /\ is_separator(CharAt(r.render, p + keywords[j].klen)) }

\* The positions of row r that carry a keyword class.
KeywordClass(r) == {q \in 1..r.rsize : r.hl[q] \in {HL_KEYWORD1, HL_KEYWORD2}}

\* The two lines the claim on keywords names.
Forward == <<"f", "o", "r", "w", "a", "r", "d">>
ForX == <<"f", "o", "r", " ", "(", "x", ")">>

KeywordExamples(e) ==
  \A i \in 1..e.numrows :
    /\ e.row[i].chars = Forward => KeywordClass(e.row[i]) = {}
    /\ e.row[i].chars = ForX => KeywordClass(e.row[i]) = {1, 2, 3}

\* ------------------------------------------------------------ claims

\* C1: after any sequence of row insertions, row deletions, character
\* insertions and deletions, newline splits and backspace joins, every row's
\* stored index equals its position in the buffer.
C1_IndexIsPosition ==
  /\ Len(E.row) = E.numrows
  /\ \A i \in 0..(E.numrows - 1) : E.row[i + 1].idx = i

\* C1 witness: one modification of a MaxRows-row file has left one row more,
\* with the cursor on row 1: Enter on row 0 has inserted a row above rows
\* that had to be renumbered.
C1_Witness ==
  /\ mode = "edit"
  /\ edits = 1
  /\ E.numrows = MaxRows + 1
  /\ E.cy = 1

\* C2: for every row, the highlight array has as many entries as the render
\* string has characters (rsize of them), after every row update, syntax
\* (re)selection, search highlight and search restore.
C2_HlCoversRender ==
  \A i \in 1..E.numrows :
    /\ Len(E.row[i].hl) = E.row[i].rsize
    /\ Len(E.row[i].render) = E.row[i].rsize

\* C2 witness: a search is on with a match painted over a row whose
\* highlight was saved, in a buffer that has been modified.
C2_Witness ==
  /\ mode = "find"
  /\ edits = 1
  /\ find.saved_hl # NullHl
  /\ find.last_match >= 0
  /\ \E p \in 1..E.row[find.last_match + 1].rsize :
       E.row[find.last_match + 1].hl[p] = HL_MATCH

\* C3 as claimed: whenever the buffer is drawn (the editor waits for a key
\* in main's loop), every row's highlight array and open-comment flag equal
\* what a from-scratch pass over the current raw content gives.
C3_AlwaysConsistent == mode = "edit" => Consistent(E)

\* A step of the editor that inserts one character into the cursor row or
\* deletes one character from it (Backspace or Ctrl-X inside a row; the
\* joins of two rows change the number of rows and are no such step).
CharEditStep ==
  /\ mode = "edit"
  /\ mode' = "edit"
  /\ E'.dirty > E.dirty
  /\ \/ \E c \in Chars : KeyChar(c, MaxEditsWide)
     \/ /\ E'.numrows = E.numrows
        /\ KeyBackspace(MaxEditsWide) \/ KeyCtrlX(MaxEditsWide)

\* The step deletes the end marker of a multi-line comment from the cursor
\* row: the row had one end marker, highlighted as the end of a comment, had
\* no open comment at its end, and has no end marker left.
EndMarkerDeleted ==
  /\ CharEditStep
  /\ E'.numrows = E.numrows
  /\ E.syntax # NoSyntax
  /\ LET mce == HLDB[E.syntax].multiline_comment_end
         old == E.row[E.cy + 1]
         new == E'.row[E.cy + 1]
     IN /\ new.size < old.size
        /\ ~old.hl_open_comment
        /\ Cardinality({p \in 0..(old.rsize - 1) : MatchAt(old.render, p, mce)}) = 1
        /\ \A p \in 0..(old.rsize - 1) :
             MatchAt(old.render, p, mce) => old.hl[p + 1] = HL_MLCOMMENT
        /\ ~Occurs(new.render, mce)

\* Rows after row r of e, up to the first one holding an end marker, are
\* comment-class in every position.
CommentRunAfter(e, r) ==
  \A k \in (r + 1)..(e.numrows - 1) :
    (\A j \in (r + 1)..k : ~Occurs(e.row[j + 1].render, HLDB[e.syntax].multiline_comment_end))
      => \A p \in 1..e.row[k + 1].rsize : e.row[k + 1].hl[p] = HL_MLCOMMENT

\* C4: with a syntax selected and the buffer highlighted as a fresh pass
\* highlights it, inserting or deleting one character in row r leaves every
\* row from r to the end with the highlight and flag a fresh pass gives; and
\* deleting the end marker of a multi-line comment from row r sets row r's
\* flag and makes every following row up to the next end marker fully
\* comment-class.
C4_CharEditCascades ==
  [][ (CharEditStep /\ E.syntax # NoSyntax /\ Consistent(E))
        => /\ ConsistentFrom(E', E.cy)
           /\ EndMarkerDeleted
                => /\ E'.row[E.cy + 1].hl_open_comment
                   /\ CommentRunAfter(E', E.cy) ]_vars

\* C4 witness: the file was "/*", "*/", "a"; one character of the end
\* marker in row 1 has been deleted, row 1 now carries an open comment and
\* row 2 is comment-class.
C4_Witness ==
  /\ mode = "edit"
  /\ edits = 1
  /\ file.data = <<"/", "*", "\n", "*", "/", "\n", "a", "\n">>
  /\ E.numrows = 3
  /\ E.row[2].size = 1
  /\ E.row[2].hl_open_comment
  /\ E.row[3].chars = <<"a">>
  /\ E.row[3].hl = <<HL_MLCOMMENT>>

\* The rows of e between which the claim on multi-line comments speaks:
\* a comment is opened on row n and left open at its end (the row before
\* ends outside a comment, row n ends inside one), and the first row after
\* n that holds an end marker is row m.
OpenedAndClosed(e, n, m) ==
  LET mce == HLDB[e.syntax].multiline_comment_end
  IN /\ e.row[n + 1].hl_open_comment
     /\ n > 0 => ~e.row[n].hl_open_comment
     /\ \A j \in (n + 1)..(m - 1) : ~Occurs(e.row[j + 1].render, mce)
     /\ Occurs(e.row[m + 1].render, mce)

\* Row m opens no further comment behind its first end marker.
NoFurtherComment(e, m) ==
  LET r   == e.row[m + 1]
      mce == HLDB[e.syntax].multiline_comment_end
      mcs == HLDB[e.syntax].multiline_comment_start
      p   == FirstOccurrence(r.render, mce)
  IN \A i \in (p + Len(mce))..r.rsize : ~MatchAt(r.render, i, mcs)

\* C5: when a multi-line comment is opened and left unterminated on row N
\* and its first end marker is on row M > N, then rows N..M-1 carry the
\* open-comment flag, every character of rows N+1..M-1 is comment-class,
\* row M is comment-class up to and including the end marker, and, if row M
\* opens no further comment, its flag is false and row M+1 is highlighted
\* as it is without a carried-in comment.
C5_CommentAcrossRows ==
  (mode = "edit" /\ E.syntax # NoSyntax) =>
    \A n \in 0..(E.numrows - 1) : \A m \in (n + 1)..(E.numrows - 1) :
      OpenedAndClosed(E, n, m) =>
        LET mce == HLDB[E.syntax].multiline_comment_end
            rm  == E.row[m + 1]
            p   == FirstOccurrence(rm.render, mce)
        IN /\ \A j \in n..(m - 1) : E.row[j + 1].hl_open_comment
           /\ \A j \in (n + 1)..(m - 1) :
                \A q \in 1..E.row[j + 1].rsize : E.row[j + 1].hl[q] = HL_MLCOMMENT
           /\ \A q \in 1..(p + Len(mce)) : rm.hl[q] = HL_MLCOMMENT
           /\ NoFurtherComment(E, m) =>
                /\ ~rm.hl_open_comment
                /\ m + 1 < E.numrows =>
                     LET next == E.row[m + 2]
                     IN next.hl =
                          ScanLoop(next, HLDB[E.syntax], Keywords[E.syntax], 0,
                                   [k \in 1..next.rsize |-> HL_NORMAL], TRUE, NoString,
                                   FALSE).hl

\* C5 witness: the loaded file is "/*", "a", "*/", "a": the comment opens
\* on row 0, its end marker is on row 2, row 3 follows.
C5_Witness ==
  /\ mode = "edit"
  /\ E.numrows = 4
  /\ OpenedAndClosed(E, 0, 2)
  /\ E.row[2].chars = <<"a">>
  /\ E.row[4].chars = <<"a">>
  /\ E.row[4].hl = <<HL_NORMAL>>

\* C6: every row's render string is its raw content with the tabs expanded,
\* and rsize >= size.
C6_RenderIsExpansion ==
  \A i \in 1..E.numrows :
    /\ E.row[i].size = Len(E.row[i].chars)
    /\ E.row[i].rsize = Len(E.row[i].render)
    /\ E.row[i].render = Expand(E.row[i].chars)
    /\ E.row[i].rsize >= E.row[i].size

\* C6 witness: a row of a loaded file has been split by Enter behind a tab
\* that was typed into it: both halves exist, the first one holding the tab.
C6_Witness ==
  /\ mode = "edit"
  /\ edits = 2
  /\ E.numrows >= 2
  /\ E.cy >= 1
  /\ E.cx = 0
  /\ \E i \in 1..E.numrows :
       /\ i = E.cy
       /\ E.row[i].size >= 2
       /\ E.row[i].chars[E.row[i].size] = "\t"
       /\ E.row[i].rsize > E.row[i].size

\* C7 as claimed: a keyword is highlighted only when it begins at a
\* separator boundary (start of line or right after a separator character)
\* and is immediately followed by a separator or the end of the line;
\* "forward" gets no keyword-class slot and in "for (x)" exactly the three
\* characters of "for" get the keyword class.
C7_KeywordAtSeparator ==
  (mode = "edit" /\ E.syntax # NoSyntax) =>
    /\ \A i \in 1..E.numrows :
         KeywordClass(E.row[i])
           \subseteq KeywordSlots(E.row[i], E.syntax, FALSE)
    /\ KeywordExamples(E)

\* C7 amended: a keyword is highlighted only when it begins at the start of
\* the line, right after a separator character, or right after the closing
\* quote of a string or the end marker of a multi-line comment, and is
\* immediately followed by a separator or the end of the line; "forward"
\* gets no keyword-class slot and in "for (x)" exactly the three characters
\* of "for" get the keyword class.
C7_KeywordAtScanBoundary ==
  (mode = "edit" /\ E.syntax # NoSyntax) =>
    /\ \A i \in 1..E.numrows :
         KeywordClass(E.row[i])
           \subseteq KeywordSlots(E.row[i], E.syntax, TRUE)
    /\ KeywordExamples(E)

\* C7 witness: the loaded line is a string followed at once by "if", and
\* "if" carries the keyword class.
C7_Witness ==
  /\ mode = "edit"
  /\ E.numrows = 1
  /\ E.row[1].chars = <<"\"", "\"", "i", "f">>
  /\ KeywordClass(E.row[1]) = {3, 4}

\* C8: for every row and every buffer column cx with 0 <= cx <= size,
\* converting cx to a render column and back returns cx; and with tab_stop
\* 4 the render column of buffer column 2 in the row 'a', TAB, 'b' is 4.
\* The render column the screen refresh keeps for the cursor is the
\* conversion of the cursor column, and converts back to it.
C8_RoundTrip ==
  /\ \A i \in 1..E.numrows :
       /\ \A cx \in 0..E.row[i].size :
            editorRowRxToCx(E.row[i], editorRowCxToRx(E.row[i], cx)) = cx
       /\ E.row[i].chars = <<"a", "\t", "b">> => editorRowCxToRx(E.row[i], 2) = 4
  /\ (mode = "edit" /\ E.cy < E.numrows) =>
       /\ E.cx <= E.row[E.cy + 1].size
       /\ E.rx = editorRowCxToRx(E.row[E.cy + 1], E.cx)
       /\ editorRowRxToCx(E.row[E.cy + 1], E.rx) = E.cx

\* C8 witness: the cursor stands on buffer column 2 of the row 'a', TAB,
\* 'b', at render column 4.
C8_Witness ==
  /\ mode = "edit"
  /\ E.cy < E.numrows
  /\ E.row[E.cy + 1].chars = <<"a", "\t", "b">>
  /\ E.cx = 2
  /\ E.rx = 4

\* C9 as claimed: loading a file and serialising the buffer at once yields
\* the file's lines in their order, each without its line terminator (LF,
\* CR LF, or nothing for the last line) and followed by one newline byte.
C9_TerminatorOnly ==
  (mode = "edit" /\ E.dirty = 0) =>
    LET lines == FileLines(file.data)
    IN editorRowsToString(E) = Rejoin([i \in 1..Len(lines) |-> WithoutTerminator(lines[i])])

\* C9 amended: loading a file and serialising the buffer at once yields the
\* file's lines in their order, each without all the CR and LF bytes it
\* ends in and followed by one newline byte.
C9_LineEndsStripped ==
  (mode = "edit" /\ E.dirty = 0) =>
    LET lines == FileLines(file.data)
    IN editorRowsToString(E) = Rejoin([i \in 1..Len(lines) |-> WithoutLineEnds(lines[i])])

\* C9 witness: the loaded file has a line that ends in CR LF and a last
\* line that ends in nothing; the buffer holds both.
C9_Witness ==
  /\ mode = "edit"
  /\ file.data = <<"a", "\r", "\n", "b">>
  /\ E.numrows = 2
  /\ E.row[1].chars = <<"a">>
  /\ E.row[2].chars = <<"b">>

\* C10 as claimed: re-running the row update on any row (its raw content
\* unchanged) leaves the row array as it is: the row's render, highlight and
\* flag stay, and no following row is re-highlighted to something else.
C10_UpdateChangesNothing ==
  mode = "edit" => \A at \in 0..(E.numrows - 1) : editorUpdateRow(E, at).row = E.row

\* ------------------------------------------------------------ search sessions

\* The highlight arrays of the rows, in row order.
Hl(e) == [k \in 1..e.numrows |-> e.row[k].hl]

\* The highlight arrays of the rows with the slice the search callback holds
\* in saved_hl put back over its row.
RestoredHl(e, f) ==
  [k \in 1..e.numrows |->
     IF f.saved_hl # NullHl /\ k = f.saved_hl_line + 1 THEN f.saved_hl ELSE e.row[k].hl]

\* The rows that hold a slot of the match class.
MatchRows(e) == {k \in 1..e.numrows : \E p \in 1..Len(e.row[k].hl) : e.row[k].hl[p] = HL_MATCH}

\* C11: a search session never loses the highlight arrays it started with.
\* Ctrl-F starts from no saved slice and leaves the arrays as they were;
\* every key inside the session (query edit or arrow) keeps the arrays that
\* putting the saved slice back would give, so the row overridden before is
\* restored before a new match is marked, and at most one row carries the
\* match class; leaving the session (Escape, and Enter likewise) leaves
\* every row's array equal to what it was before the session.
C11_SearchRestoresHl ==
  [][/\ (mode = "edit" /\ mode' = "find") =>
          /\ find.saved_hl = NullHl
          /\ RestoredHl(E', find') = Hl(E)
     /\ (mode = "find" /\ mode' = "find") =>
          /\ RestoredHl(E', find') = RestoredHl(E, find)
          /\ Cardinality(MatchRows(E')) <= 1
          /\ MatchRows(E') # {} => /\ find'.saved_hl # NullHl
                                   /\ MatchRows(E') = {find'.saved_hl_line + 1}
     /\ (mode = "find" /\ mode' = "edit") =>
          /\ Hl(E') = RestoredHl(E, find)
          /\ find'.saved_hl = NullHl
          /\ MatchRows(E') = {}]_vars

\* A session in which an arrow key has stepped backward to a match on the
\* second row, whose array is overridden and differs from the saved slice.
C11_Witness ==
  /\ mode = "find"
  /\ Len(buf) >= 1
  /\ find.saved_hl # NullHl
  /\ find.saved_hl_line = 1
  /\ find.direction = -1
  /\ E.row[2].hl # find.saved_hl
  /\ MatchRows(E) = {2}

\* The cursor and the scroll offsets of the editor.
CursorAndOffsets(e) == [cx |-> e.cx, cy |-> e.cy, coloff |-> e.coloff, rowoff |-> e.rowoff]

\* The cursor position sv is on row's end at most, or behind the last row
\* at column 0.
OnText(e, sv) ==
  IF sv.cy < e.numrows THEN sv.cx <= e.row[sv.cy + 1].size ELSE sv.cx = 0

\* C12: Escape puts the cursor and the scroll offsets back.  Ctrl-F saves
\* the cursor column and row and the column and row offsets it finds; no
\* key inside the session changes the saved values; on Escape the search
\* returns with all four equal to the saved values, whatever matches moved
\* the cursor in between, and with the saved cursor on the text the screen
\* refresh that follows leaves them so.
C12_CancelRestoresCursor ==
  [][/\ (mode = "edit" /\ mode' = "find") => saved' = CursorAndOffsets(E)
     /\ (mode = "find" /\ mode' = "find") => saved' = saved
     /\ FindEsc =>
          /\ CursorAndOffsets(editorFindCancelled(
                                editorFindCallback(E, find, buf, ESC).e, saved)) = saved
          /\ OnText(E, saved) => CursorAndOffsets(E') = saved]_vars

\* A session whose second match, reached with an arrow key, has moved the
\* cursor to another row and scrolled the window away from where the
\* session started.
C12_Witness ==
  /\ mode = "find"
  /\ find.last_match >= 0
  /\ find.direction = -1
  /\ E.cy # saved.cy
  /\ E.cx # saved.cx
  /\ E.rowoff # saved.rowoff

\* ------------------------------------------------------------ buffer and dirty counter

\* The raw content of the rows, in row order.
RawRows(e) == [k \in 1..e.numrows |-> SubSeq(e.row[k].chars, 1, e.row[k].size)]

\* A save that succeeds: Ctrl-S on a named buffer, or Enter in the save-as
\* prompt, with open, ftruncate and write all succeeding.
SavedStep == KeyCtrlS(TRUE) \/ SaveAsEnter(TRUE)

\* C13: the dirty counter follows the content.  It is never negative; main's
\* start, with or without a file load, leaves it 0; every later step that
\* changes a row's raw content or the number or order of the rows strictly
\* increases it; a successful save sets it to 0 and changes no row; it
\* falls to 0 only by a successful save.  Hence a step that ends with the
\* counter at 0 has either loaded or has left the content alone: while the
\* counter is 0 the content is that of the last load or successful save.
C13_DirtyTracksContent ==
  [][/\ E'.dirty >= 0
     /\ mode = "start" => E'.dirty = 0
     /\ (mode # "start" /\ RawRows(E') # RawRows(E)) => E'.dirty > E.dirty
     /\ (SavedStep /\ (mode = "edit" \/ Len(buf) # 0)) =>
          /\ E'.dirty = 0
          /\ RawRows(E') = RawRows(E)
     /\ (E.dirty > 0 /\ E'.dirty = 0) => SavedStep
     /\ (mode # "start" /\ E'.dirty = 0) =>
          /\ RawRows(E') = RawRows(E)
          /\ editorRowsToString(E') = editorRowsToString(E)]_vars

\* A buffer that was modified and then saved: the counter is back at 0 with
\* a content other than the loaded one.
C13_Witness ==
  /\ mode = "edit"
  /\ edits > 0
  /\ E.dirty = 0
  /\ E.statusmsg = "bytes written to disk"
  /\ file.arg
  /\ editorRowsToString(E) # editorRowsToString(editorOpen(initEditor, file))

\* ------------------------------------------------------------ out-of-range requests

\* The buffer part of the editor state: the rows with all their fields, the
\* row count and the dirty counter.
Buffer(e) == [row |-> e.row, numrows |-> e.numrows, dirty |-> e.dirty]

\* Row insertion at a position below 0 or above numrows, row deletion at a
\* position below 0 or at or above numrows, and character deletion at a
\* column below 0 or at or above the row's size leave the buffer as it is.
RowRequestsIgnored(e) ==
  /\ \A at \in {-2, -1, e.numrows + 1, e.numrows + 2} : \A s \in {<<>>, <<"a">>, <<"/", "*">>} :
        editorInsertRow(e, at, s) = e
  /\ \A at \in {-2, -1, e.numrows, e.numrows + 1} : editorDelRow(e, at) = e
  /\ \A row \in 0..(e.numrows - 1) :
        \A at \in {-2, -1, e.row[row + 1].size, e.row[row + 1].size + 1} :
           editorRowDelChar(e, row, at) = e

\* Character insertion at a column below 0 or above the row's size leaves
\* the buffer as it is.
CharInsertIgnored(e) ==
  \A row \in 0..(e.numrows - 1) :
     \A at \in {-2, -1, e.row[row + 1].size + 1, e.row[row + 1].size + 2} :
        \A c \in Chars : Buffer(editorRowInsertChar(e, row, at, c)) = Buffer(e)

\* C14: a request to the buffer with an out-of-range position changes
\* nothing: rows, raw content, row count and dirty counter stay as they are
\* for an out-of-range row insertion, row deletion, character deletion and
\* character insertion.
C14_OutOfRangeNoOp ==
  mode = "edit" => RowRequestsIgnored(E) /\ CharInsertIgnored(E)

\* ------------------------------------------------------------ failed saves

\* A save that fails on a buffer that has a filename, and one that fails
\* after the save-as prompt has returned a name for an unnamed buffer.
FailedSaveStep == KeyCtrlS(FALSE)

FailedSaveAsStep == mode = "saveas" /\ Len(buf) # 0 /\ SaveAsEnter(FALSE)

\* The editor state but for the status message.
WithoutMessage(e) == [e EXCEPT !.statusmsg = ""]

\* A failed save of a named buffer sets the failure message and changes
\* nothing else of the editor state.
FailedSaveKeepsState ==
  [][FailedSaveStep =>
       /\ E'.statusmsg = "[ERROR] Can't save!"
       /\ WithoutMessage(E') = WithoutMessage(E)]_vars

\* C15: a failed save changes nothing but the message.  After the step of
\* a save that fails, on a named buffer or at the end of save-as on an
\* unnamed one, the failure message is set, and the dirty counter, the
\* rows with their raw content and highlight arrays, the filename, the
\* active syntax and the cursor are as they were before the step.
C15_FailedSaveChangesNothing ==
  [][(FailedSaveStep \/ FailedSaveAsStep) =>
       /\ E'.statusmsg = "[ERROR] Can't save!"
       /\ WithoutMessage(E') = WithoutMessage(E)]_vars

\* ------------------------------------------------------------ split and join

\* Row k (0-based) of e is rendered from its raw content and highlighted
\* and flagged as one scan of it gives, seeded with the flag its
\* predecessor now carries.
RowConsistent(e, k) ==
  LET r    == e.row[k + 1]
      seed == k > 0 /\ e.row[k].hl_open_comment
      res  == FreshFrom(e.row, k + 1, e.syntax, k, seed)[1]
  IN /\ r.render = Expand(SubSeq(r.chars, 1, r.size))
     /\ r.hl = res.hl
     /\ r.hl_open_comment = res.in_comment

\* The step of Enter with the cursor on an existing row, at a column of it.
EnterOnRow ==
  /\ edits' = edits + 1
  /\ E.cy < E.numrows
  /\ KeyEnter(MaxEdits)

\* What Enter does to the raw rows and the cursor: the row at the cursor is
\* cut at the cursor's column into two rows that take its place, in order;
\* at column 0 the first of them is empty; the rows before and behind keep
\* content and order; the cursor stands at column 0 of the second.
SplitsRow(e, e2) ==
  LET old == RawRows(e)
      new == RawRows(e2)
      r   == e.cy + 1
  IN /\ e2.numrows = e.numrows + 1
     /\ new[r] = SubSeq(old[r], 1, e.cx)
     /\ new[r + 1] = SubSeq(old[r], e.cx + 1, Len(old[r]))
     /\ e.cx = 0 => new[r] = <<>> /\ new[r + 1] = old[r]
     /\ new[r] \o new[r + 1] = old[r]
     /\ \A k \in 1..(r - 1) : new[k] = old[k]
     /\ \A k \in (r + 1)..e.numrows : new[k + 1] = old[k]
     /\ e2.cy = e.cy + 1
     /\ e2.cx = 0

\* Enter on an existing row splits it as described.
EnterSplitsRow == [][EnterOnRow => SplitsRow(E, E')]_vars

\* Enter on an existing row of a buffer whose highlights are up to date
\* leaves both rows of the split consistent.
EnterKeepsConsistent ==
  [][(EnterOnRow /\ Consistent(E)) =>
       RowConsistent(E', E.cy) /\ RowConsistent(E', E.cy + 1)]_vars

\* C16: Enter with the cursor on an existing row splits the row at the
\* cursor: an empty row before it at column 0, the first c characters and
\* the rest at column c > 0; the two rows together are the original row,
\* the other rows keep content and order, the cursor goes to column 0 of
\* the next row, and both rows of the split have render and highlight
\* consistent with their content and their predecessor's open-comment flag.
C16_EnterSplitsAndHighlights ==
  [][EnterOnRow =>
       /\ SplitsRow(E, E')
       /\ RowConsistent(E', E.cy)
       /\ RowConsistent(E', E.cy + 1)]_vars

\* The step of Backspace with the cursor at column 0.
BackspaceAtColumn0 ==
  /\ E.cx = 0
  /\ KeyBackspace(MaxEdits)

\* What Backspace at column 0 of a row behind the first does to the raw
\* rows and the cursor: the row before the cursor's takes the cursor's row
\* at its end, the cursor's row goes, the other rows keep content and
\* order, and the cursor stands on the row before at the column that was
\* its length.
JoinsRows(e, e2) ==
  LET old == RawRows(e)
      new == RawRows(e2)
      r   == e.cy + 1
  IN /\ e2.numrows = e.numrows - 1
     /\ new[r - 1] = old[r - 1] \o old[r]
     /\ \A k \in 1..(r - 2) : new[k] = old[k]
     /\ \A k \in r..e2.numrows : new[k] = old[k + 1]
     /\ e2.cy = e.cy - 1
     /\ e2.cx = Len(old[r - 1])

\* C17: Backspace at column 0.  On a row r > 0 it joins row r to row r-1:
\* row r-1 becomes the two rows' concatenation, row r is removed, the row
\* count falls by one, the other rows keep content and order, and the
\* cursor goes to row r-1 at the column equal to that row's old length.
\* On row 0, and on the line behind the last row, nothing changes.
C17_BackspaceJoins ==
  [][BackspaceAtColumn0 =>
       IF E.cy > 0 /\ E.cy < E.numrows THEN JoinsRows(E, E')
       ELSE E' = E]_vars

\* A buffer just joined: the one modification so far took a row of the
\* loaded file away and left the cursor inside the joined row, at the end
\* of what was the row before.
C17_Witness ==
  /\ mode = "edit"
  /\ file.arg
  /\ edits = 1
  /\ E.dirty = 2
  /\ E.numrows = Len(FileLines(file.data)) - 1
  /\ E.cx > 0
  /\ E.cy < E.numrows
  /\ E.cx < E.row[E.cy + 1].size
  /\ RawRows(E)[E.cy + 1] =
       WithoutLineEnds(FileLines(file.data)[E.cy + 1])
         \o WithoutLineEnds(FileLines(file.data)[E.cy + 2])

\* ------------------------------------------------------------ syntax selection by name

\* name ends with pat; pat stands somewhere in name.
EndsWith(name, pat) ==
  /\ Len(name) >= Len(pat)
  /\ SubSeq(name, Len(name) - Len(pat) + 1, Len(name)) = pat

Contains(name, pat) ==
  \E i \in 1..(Len(name) - Len(pat) + 1) : SubSeq(name, i, i + Len(pat) - 1) = pat

\* A pattern that starts with a dot is a suffix pattern, any other a
\* substring pattern; a registry entry matches by any of its patterns.
PatternMatches(name, pat) ==
  IF pat[1] = "." THEN EndsWith(name, pat) ELSE Contains(name, pat)

EntryMatches(j, name) ==
  \E i \in 1..Len(HLDB[j].filematch) : PatternMatches(name, HLDB[j].filematch[i])

\* The first registry entry that matches name, none without a name or a
\* matching entry.
FirstEntry(name) ==
  IF name = NULL \/ \A j \in 1..HLDB_ENTRIES : ~EntryMatches(j, name) THEN NoSyntax
  ELSE CHOOSE j \in 1..HLDB_ENTRIES :
         EntryMatches(j, name) /\ \A k \in 1..(j - 1) : ~EntryMatches(k, name)

\* C18: the active syntax is the first registry entry, in the order C/C++,
\* Golang, Python, Rust, with a pattern that matches the filename: a
\* pattern starting with a dot matches when the filename ends with it, any
\* other pattern when it occurs anywhere in the filename; without a
\* filename or a matching entry no syntax is active.
C18_FirstMatchingEntry ==
  /\ [j \in 1..HLDB_ENTRIES |-> HLDB[j].filetype] = <<"C/C++", "Golang", "Python", "Rust">>
  /\ E.syntax = FirstEntry(E.filename)

\* A loaded file whose name matches two registry entries, the later one by
\* its extension, with the earlier one active.
C18_Witness ==
  /\ mode = "edit"
  /\ E.filename # NULL
  /\ E.syntax # NoSyntax
  /\ \E j \in (E.syntax + 1)..HLDB_ENTRIES :
        /\ EntryMatches(j, E.filename)
        /\ \E i \in 1..Len(HLDB[j].filematch) : EndsWith(E.filename, HLDB[j].filematch[i])

\* ------------------------------------------------------------ search steps

\* The row the scan starts from and the direction it takes, for a key of
\* the prompt: an arrow continues from the last match, forward for Right
\* and Down, backward for Left and Up; any other key, and an arrow without
\* a last match, starts forward from before row 0.
ScanStart(f, key) ==
  IF key \in {ARROW_LEFT, ARROW_RIGHT, ARROW_UP, ARROW_DOWN} THEN f.last_match ELSE -1

ScanDirection(f, key) ==
  IF ScanStart(f, key) # -1 /\ key \in {ARROW_LEFT, ARROW_UP} THEN -1 ELSE 1

\* The rows (0-based) in the order the scan visits them: n rows from
\* start + dir on, wrapping at both ends, each row once.
ScanOrder(n, start, dir) == [i \in 1..n |-> (start + dir * i + n) % n]

\* The first position (0-based) of query in render.
MatchStart(render, query) ==
  CHOOSE p \in 0..Len(render) :
    /\ SubSeq(render, p + 1, p + Len(query)) = query
    /\ \A k \in 0..(p - 1) : SubSeq(render, k + 1, k + Len(query)) # query

\* The buffer column whose rendering covers render position rx.
ColumnOf(r, rx) ==
  CHOOSE cx \in 0..r.size :
    /\ editorRowCxToRx(r, cx) <= rx \/ cx = 0
    /\ cx = r.size \/ editorRowCxToRx(r, cx + 1) > rx

\* One search step from editor state e and search state f on the query,
\* for the key, has left e2 and f2 as the claim describes.
SearchStepAsClaimed(e, f, query, key, e2, f2) ==
  LET n     == e.numrows
      start == ScanStart(f, key)
      dir   == ScanDirection(f, key)
      order == ScanOrder(n, start, dir)
      hits  == {i \in 1..n : Contains(e.row[order[i] + 1].render, query)}
      first == CHOOSE i \in hits : \A k \in hits : i <= k
      m     == order[first]
      at    == MatchStart(e.row[m + 1].render, query)
      was   == RestoredHl(e, f)
  IN /\ Len(order) = n
     /\ \A i, k \in 1..n : i # k => order[i] # order[k]
     /\ IF hits = {}
        THEN /\ Hl(e2) = was
             /\ e2.cx = e.cx
             /\ e2.cy = e.cy
             /\ f2.last_match = start
             /\ f2.saved_hl = NullHl
        ELSE /\ e2.cy = m
             /\ e2.cx = ColumnOf(e.row[m + 1], at)
             /\ f2.last_match = m
             /\ \A k \in 1..n : k # m + 1 => e2.row[k].hl = was[k]
             /\ \A p \in 1..Len(was[m + 1]) :
                   e2.row[m + 1].hl[p] =
                     IF p > at /\ p <= at + Len(query) THEN HL_MATCH ELSE was[m + 1][p]
             /\ Len(e2.row[m + 1].hl) = Len(was[m + 1])

\* C19: every search step scans the rows one at a time from last_match +
\* direction on, wrapping at the ends, each row at most once, and takes
\* the first row whose render string holds the query: the cursor goes to
\* that row at the buffer column of the match start and exactly the
\* matched span gets the match class.  A query edit (a typed character or
\* Backspace) scans forward from row 0, Right and Down go on forward from
\* the last match, Left and Up backward from it.
C19_SearchStepScansInOrder ==
  [][mode = "find" =>
       /\ \A c \in QueryChars :
            FindChar(c) => SearchStepAsClaimed(E, find, Append(buf, c), c, E', find')
       /\ FindBackspace => SearchStepAsClaimed(E, find, buf', BACKSPACE, E', find')
       /\ \A key \in {ARROW_LEFT, ARROW_RIGHT, ARROW_UP, ARROW_DOWN} :
            FindArrow(key) => SearchStepAsClaimed(E, find, buf, key, E', find')]_vars

\* A backward step that has wrapped: of three rows the first and the last
\* hold the query and the one between does not; the match stands on the
\* last row, reached backward, behind a tab, so that the cursor's column
\* (1) is not the render position of the match (4).
C19_Witness ==
  /\ mode = "find"
  /\ buf = <<"a">>
  /\ E.numrows = 3
  /\ find.last_match = 2
  /\ find.direction = -1
  /\ Contains(E.row[1].render, buf)
  /\ ~Contains(E.row[2].render, buf)
  /\ E.row[3].chars = <<"\t", "a", "/">>
  /\ E.cy = 2
  /\ E.cx = 1
  /\ E.row[3].hl[5] = HL_MATCH
  /\ E.row[3].hl[6] # HL_MATCH

\* ------------------------------------------------------------ scrolling

\* The render column of the cursor: the width of the tab expansion of the
\* characters before it on its row, 0 behind the last row.
RenderColumn(e) ==
  IF e.cy < e.numrows THEN Len(Expand(SubSeq(e.row[e.cy + 1].chars, 1, e.cx))) ELSE 0

\* The cursor's row is in the row window, its render column in the column
\* window and left of the columns kept for the line numbers, and rx is the
\* render column of the cursor.
CursorInWindow(e) ==
  /\ e.rowoff <= e.cy
  /\ e.cy < e.rowoff + e.screenrows
  /\ e.coloff <= e.rx
  /\ e.rx < e.coloff + e.screencols
  /\ e.rx < e.coloff + e.screencols - VINE_LINE_NUMBER_PADDING - 1
  /\ e.rx = RenderColumn(e)

\* On a screen with at least two columns besides the line numbers the
\* cursor is in the window after every scroll computation.
CursorInWideWindow ==
  (mode = "edit" /\ E.screencols >= VINE_LINE_NUMBER_PADDING + 2) => CursorInWindow(E)

\* C20: after every scroll computation, on a screen of any positive size,
\* rowoff <= cy < rowoff + screenrows and coloff <= rx < coloff +
\* screencols, rx is left of the columns kept for the line numbers, and rx
\* is the tab-expanded render column of cx on row cy, 0 behind the last
\* row.
C20_CursorInWindow ==
  mode = "edit" => CursorInWindow(E)

\* ------------------------------------------------------------ syntax selection on a buffer with rows

\* The step that ends the save-as prompt with a name: the name becomes the
\* filename and the syntax is selected for it.
NamingStep == mode = "saveas" /\ Len(buf) # 0 /\ (SaveAsEnter(TRUE) \/ SaveAsEnter(FALSE))

\* C21: selecting a syntax for a buffer that has rows re-highlights every
\* row.  After the step that names an unnamed buffer through save-as, the
\* active syntax is the one selected for the name, and every row's
\* highlight and open-comment flag equal a from-scratch pass over the rows
\* with that syntax.
C21_SelectionRehighlights ==
  [][NamingStep =>
       /\ E'.filename = buf
       /\ E'.syntax = SelectedSyntax(buf)
       /\ Consistent(E')]_vars

\* An unnamed buffer of two rows saved as .c: the C syntax is active, the
\* first row opens a comment and the second row, typed without a syntax, is
\* comment-class throughout.
C21_Witness ==
  /\ mode = "edit"
  /\ ~file.arg
  /\ E.filename = <<".", "c">>
  /\ E.syntax # NoSyntax
  /\ E.dirty = 0
  /\ E.numrows >= 2
  /\ E.row[1].hl_open_comment
  /\ E.row[2].rsize > 0
  /\ \A p \in 1..E.row[2].rsize : E.row[2].hl[p] = HL_MLCOMMENT

\* ------------------------------------------------------------ buffers without a syntax

\* C22: without an active syntax nothing is highlighted.  In every state
\* with E.syntax == NULL every row's open-comment flag is false and every
\* highlight slot is HL_NORMAL, but for the slots of the match class on the
\* one row a search session in progress has overridden.
C22_NoSyntaxAllDefault ==
  E.syntax = NoSyntax =>
    \A k \in 1..E.numrows :
      /\ ~E.row[k].hl_open_comment
      /\ \A p \in 1..Len(E.row[k].hl) :
            \/ E.row[k].hl[p] = HL_NORMAL
            \/ /\ E.row[k].hl[p] = HL_MATCH
               /\ mode = "find"
               /\ find.saved_hl # NullHl
               /\ k = find.saved_hl_line + 1

\* A file without a syntax whose first row would open a comment in C, after
\* a modification.
C22_Witness ==
  /\ mode = "edit"
  /\ file.arg
  /\ E.syntax = NoSyntax
  /\ edits >= 1
  /\ E.numrows >= 2
  /\ E.row[1].chars = <<"/", "*">>

\* ------------------------------------------------------------ the keyword list in list order

\* One-line .c files put together from up to MaxTokens tokens: words the C
\* list holds once ("int|", "do", "double|") and twice ("auto" and "auto|"),
\* an identifier, a digit, separators, a quote and the comment markers.
KeywordTokens ==
  {<<"a", "u", "t", "o">>, <<"i", "n", "t">>, <<"d", "o">>,
   <<"d", "o", "u", "b", "l", "e">>, <<"x">>, <<"1">>, <<" ">>, <<".">>,
   <<"\"">>, <<"/", "*">>, <<"*", "/">>}

MaxTokens == 3

TokenFiles == {CFile(Concat(ts) \o <<"\n">>) : ts \in SeqsUpTo(KeywordTokens, MaxTokens)}

InitTokens == InitOn(TokenFiles)

NextTokens == Main

SpecTokens == InitTokens /\ [][NextTokens]_vars

\* The scan of row r reaches the keyword loop at position p (vine.c 495):
\* p is the start of the line, or follows a separator that the scan
\* classified as default, the closing quote of a string or the end marker
\* of a multi-line comment, and the character at p was taken by neither
\* the comment, the string nor the number handling.
AtKeywordLoop(r, p, syn) ==
  /\ r.hl[p + 1] \in {HL_NORMAL, HL_KEYWORD1, HL_KEYWORD2}
  /\ \/ p = 0
     \/ is_separator(r.render[p]) /\ r.hl[p] = HL_NORMAL
     \/ r.hl[p] = HL_STRING /\ r.render[p] \in {"\"", "'"}
     \/ /\ r.hl[p] = HL_MLCOMMENT
        /\ p >= Len(syn.multiline_comment_end)
        /\ MatchAt(r.render, p - Len(syn.multiline_comment_end), syn.multiline_comment_end)

\* The entries of the list keywords that match at position p of r as a
\* literal prefix followed by a separator or the end of the line.
MatchingEntries(r, p, keywords) ==
  { j \in 1..Len(keywords) :
      /\ p + Len(keywords[j].word) <= r.rsize
      /\ SubSeq(r.render, p + 1, p + Len(keywords[j].word)) = keywords[j].word
      /\ \/ p + Len(keywords[j].word) = r.rsize
         \/ is_separator(r.render[p + Len(keywords[j].word) + 1]) }

\* The class an entry of the list C_HL_keywords etc. gives: secondary when
\* the entry as written ends in "|".
EntryClass(syntax, j) ==
  LET kw == HLDB[syntax].keywords[j]
  IN IF kw[Len(kw)] = "|" THEN HL_KEYWORD2 ELSE HL_KEYWORD1

Auto == <<"a", "u", "t", "o">>

\* C23: where the scan reaches the keyword loop, the first entry in list
\* order that matches as a literal prefix followed by a separator or the
\* end of the line decides: all characters of the keyword get the class of
\* that entry (secondary for an entry ending in "|", primary otherwise), no
\* later entry is looked at, and without a matching entry the character
\* stays default.  The word "auto", listed as "auto" and again as "auto|"
\* in the C list, gets the primary class of its earlier entry.
C23_FirstEntryDecides ==
  mode = "edit" /\ E.syntax # NoSyntax =>
    \A k \in 1..E.numrows :
      LET r == E.row[k]
          keywords == Keywords[E.syntax]
      IN \A p \in 0..(r.rsize - 1) :
           AtKeywordLoop(r, p, HLDB[E.syntax]) =>
             LET hits == MatchingEntries(r, p, keywords)
             IN /\ hits = {} => r.hl[p + 1] = HL_NORMAL
                /\ hits # {} =>
                     \E j \in hits :
                       /\ \A h \in hits : j <= h
                       /\ \A q \in (p + 1)..(p + Len(keywords[j].word)) :
                            r.hl[q] = EntryClass(E.syntax, j)
                /\ (E.syntax = 1 /\ Auto \in {keywords[h].word : h \in hits}) =>
                     \A q \in (p + 1)..(p + 4) : r.hl[q] = HL_KEYWORD1

\* The line "int auto" loaded: "int" is secondary, "auto" primary.
C23_Witness ==
  /\ mode = "edit"
  /\ E.syntax = 1
  /\ E.numrows = 1
  /\ E.row[1].chars = <<"i", "n", "t", " ", "a", "u", "t", "o">>
  /\ E.row[1].hl = <<HL_KEYWORD2, HL_KEYWORD2, HL_KEYWORD2, HL_NORMAL,
                     HL_KEYWORD1, HL_KEYWORD1, HL_KEYWORD1, HL_KEYWORD1>>

\* ------------------------------------------------------------ single-line comments

\* .c files of one row of up to MaxMarkerLen characters out of MarkerChars,
\* alone or behind a row that opens a multi-line comment.
MarkerChars == {"/", "*", "\"", "\\", "a"}

MaxMarkerLen == 5

MarkerFiles ==
  {CFile(l \o <<"\n">>) : l \in SeqsUpTo(MarkerChars, MaxMarkerLen)}
  \cup {CFile(<<"/", "*", "\n">> \o l \o <<"\n">>) : l \in SeqsUpTo(MarkerChars, MaxMarkerLen)}

InitMarkers == InitOn(MarkerFiles)

NextMarkers == Main

SpecMarkers == InitMarkers /\ [][NextMarkers]_vars

\* Where every character of a line lies, read off the text alone: in
\* "code", in a "string", in a multi-line comment ("ml") or in a single-line
\* comment ("line").  st is where the reading stands at position i: "code",
\* "ml", or the quote character that opened the string it is in.  A marker
\* or a quote belongs to the region it delimits, a backslash in a string
\* takes the next character with it, and a single-line comment marker read
\* in "code" takes the rest of the line.
RECURSIVE Regions(_, _, _, _, _)
Regions(text, syn, i, st, acc) ==
  LET n   == Len(text)
      c   == text[i + 1]
      scs == syn.singleline_comment_start
      mcs == syn.multiline_comment_start
      mce == syn.multiline_comment_end
      Put(lbl, len) == [q \in 1..n |-> IF i < q /\ q <= i + len THEN lbl ELSE acc[q]]
  IN IF i >= n THEN acc
     ELSE IF st = "code"
     THEN IF MatchAt(text, i, scs) THEN Put("line", n - i)
          ELSE IF MatchAt(text, i, mcs)
          THEN Regions(text, syn, i + Len(mcs), "ml", Put("ml", Len(mcs)))
          ELSE IF c \in {"\"", "'"} THEN Regions(text, syn, i + 1, c, Put("string", 1))
          ELSE Regions(text, syn, i + 1, "code", Put("code", 1))
     ELSE IF st = "ml"
     THEN IF MatchAt(text, i, mce)
          THEN Regions(text, syn, i + Len(mce), "code", Put("ml", Len(mce)))
          ELSE Regions(text, syn, i + 1, "ml", Put("ml", 1))
     ELSE IF c = "\\" /\ i + 1 < n THEN Regions(text, syn, i + 2, st, Put("string", 2))
     ELSE IF c = st THEN Regions(text, syn, i + 1, "code", Put("string", 1))
     ELSE Regions(text, syn, i + 1, st, Put("string", 1))

\* The regions of row k of e: the row starts in a multi-line comment when
\* the row before it leaves one open.
RowRegions(e, k) ==
  LET r == e.row[k]
  IN Regions(r.render, HLDB[e.syntax], 0,
             IF k > 1 /\ e.row[k - 1].hl_open_comment THEN "ml" ELSE "code",
             [q \in 1..r.rsize |-> "code"])

\* The positions of row r where the single-line comment marker of syn
\* occurs.
MarkerPositions(r, syn) ==
  {p \in 0..(r.rsize - 1) : MatchAt(r.render, p, syn.singleline_comment_start)}

\* C24: a single-line comment marker starts a comment exactly where it is
\* read outside strings and multi-line comments.  In every loaded row, a
\* marker outside both makes every slot from the marker to the end of the
\* row HL_COMMENT and the row's open-comment flag false; a marker inside a
\* string stays string-class and one inside a multi-line comment stays
\* multi-line-comment-class; and no slot is HL_COMMENT but those behind
\* such a marker.
C24_SinglelineComment ==
  mode = "edit" /\ E.syntax # NoSyntax =>
    \A k \in 1..E.numrows :
      LET r   == E.row[k]
          reg == RowRegions(E, k)
      IN /\ \A p \in MarkerPositions(r, HLDB[E.syntax]) :
              /\ reg[p + 1] = "line" =>
                   /\ \A q \in (p + 1)..r.rsize : r.hl[q] = HL_COMMENT
                   /\ ~r.hl_open_comment
              /\ reg[p + 1] = "string" => r.hl[p + 1] = HL_STRING
              /\ reg[p + 1] = "ml" => r.hl[p + 1] = HL_MLCOMMENT
              /\ reg[p + 1] # "code"
         /\ \A q \in 1..r.rsize : r.hl[q] = HL_COMMENT <=> reg[q] = "line"

\* The row "a"// loaded: the marker stands behind a closed string, and the
\* comment starts there.
C24_Witness ==
  /\ mode = "edit"
  /\ E.syntax = 1
  /\ E.numrows = 1
  /\ E.row[1].chars = <<"\"", "a", "\"", "/", "/">>
  /\ E.row[1].hl = <<HL_STRING, HL_STRING, HL_STRING, HL_COMMENT, HL_COMMENT>>
  /\ ~E.row[1].hl_open_comment

\* ------------------------------------------------------------ validity of the cursor

\* The cursor of e is on the text: on a row and within it or at its end, or
\* at column 0 of the line behind the last row.
CursorValid(e) ==
  /\ 0 <= e.cy /\ e.cy <= e.numrows
  /\ 0 <= e.cx
  /\ IF e.cy < e.numrows THEN e.cx <= e.row[e.cy + 1].size ELSE e.cx = 0

\* C25: after any sequence of key events the cursor is valid: 0 <= cy <=
\* numrows, 0 <= cx <= size of row cy when cy < numrows, and cx = 0 when
\* cy = numrows.
C25_CursorValid == CursorValid(E)

\* ------------------------------------------------------------ the search state between sessions

\* The statics of the search callback as a new session needs them: no last
\* match, direction forward, no saved highlight.
SearchIdle(f) == f.last_match = -1 /\ f.direction = 1 /\ f.saved_hl = NullHl

\* The rows of e whose render holds query.
RowsHolding(e, query) == {k \in 1..e.numrows : Occurs(e.row[k].render, query)}

\* A key of the prompt pressed on the idle search state scans forward from
\* row 0: the cursor goes to the first row, in buffer order, that holds the
\* query, and that row alone carries the match class.
ScansFromTop ==
  LET hits == RowsHolding(E, buf')
  IN IF hits = {} THEN MatchRows(E') = {} /\ E'.cy = E.cy
     ELSE \E k \in hits :
            /\ \A h \in hits : k <= h
            /\ E'.cy = k - 1
            /\ MatchRows(E') = IF buf' = <<>> THEN {} ELSE {k}

\* C26: outside a search session no slot holds the match class and the
\* search state is idle: a session ended with Enter, like one ended with
\* Escape, has put the overridden row back and reset last match, direction
\* and saved highlight; and a typed character or an arrow pressed on the
\* idle state, as at the start of the next session, scans forward from
\* row 0 wherever the cursor is.
C26_NoMatchOutsideSession ==
  /\ [](mode # "find" => (MatchRows(E) = {} /\ SearchIdle(find)))
  /\ [][(/\ mode = "find"
         /\ SearchIdle(find)
         /\ \/ \E c \in QueryChars : FindChar(c)
            \/ \E key \in {ARROW_LEFT, ARROW_RIGHT, ARROW_UP, ARROW_DOWN} : FindArrow(key))
        => ScansFromTop]_vars

\* A session ended with Enter on a match below the first row: the cursor
\* stays on the match, no slot holds the match class, the state is idle.
C26_Witness ==
  /\ mode = "edit"
  /\ E.cy >= 1
  /\ E.cx >= 1
  /\ MatchRows(E) = {}
  /\ SearchIdle(find)

\* ------------------------------------------------------------ quitting with unsaved changes

\* C27: with unsaved changes the editor exits only on the Ctrl-Q that
\* follows exactly QUIT_TIMES Ctrl-Q presses in a row, each answered by the
\* warning; with a clean buffer it exits on a single Ctrl-Q; any other key
\* handled in between brings the countdown back to QUIT_TIMES.  Step by
\* step: a press is answered by the warning exactly while the buffer is
\* dirty and fewer than QUIT_TIMES presses precede it, and it takes one off
\* the countdown; the exit leaves a clean buffer after no press and a dirty
\* one after QUIT_TIMES presses; and whenever the editor waits for a key
\* the countdown is QUIT_TIMES less the presses in a row.
C27_QuitCountdown ==
  /\ [](mode = "edit" => (quit_times = QUIT_TIMES - presses /\ presses <= QUIT_TIMES))
  /\ [][/\ (mode = "edit" /\ mode' = "exited") =>
             IF E.dirty = 0 THEN presses = 0 ELSE presses = QUIT_TIMES
        /\ (mode = "edit" /\ presses' = presses + 1) =>
             /\ E.dirty # 0
             /\ presses < QUIT_TIMES
             /\ mode' = "edit"
             /\ E'.statusmsg = "WARNING"
        /\ (mode = "edit" /\ mode' = "edit" /\ presses' # presses + 1) =>
             (presses' = 0 /\ quit_times' = QUIT_TIMES)
        /\ (mode \in {"find", "saveas"} /\ mode' = "edit") =>
             (presses' = 0 /\ quit_times' = QUIT_TIMES)]_vars

\* The editor has exited with unsaved changes, after QUIT_TIMES warnings.
C27_Witness ==
  /\ mode = "exited"
  /\ E.dirty # 0
  /\ presses = QUIT_TIMES
  /\ quit_times = 0

\* ------------------------------------------------------------ termination of the highlight pass

\* The scan of row at of rows ends: its iterations, counted up to one more
\* than the row has characters, are at most as many as the row has
\* characters, every iteration ends at a higher scan position than it
\* starts at or breaks, and the last one breaks or reaches the end.
ScanEnds(rows, syntax, at) ==
  LET r  == rows[at + 1]
      tr == ScanIterations(r, HLDB[syntax], Keywords[syntax], 0,
                           [k \in 1..r.rsize |-> HL_NORMAL], TRUE, NoString,
                           r.idx > 0 /\ rows[r.idx].hl_open_comment, r.rsize + 1)
  IN /\ Len(tr) <= r.rsize
     /\ \A k \in 1..Len(tr) : tr[k].brk \/ tr[k].to > tr[k].from
     /\ r.rsize > 0 => (Len(tr) > 0 /\ (tr[Len(tr)].brk \/ tr[Len(tr)].to >= r.rsize))

\* No entry of a keyword list is empty, with or without its "|".
KeywordsNotEmpty == \A s \in 1..HLDB_ENTRIES : \A j \in 1..Len(Keywords[s]) : Keywords[s][j].klen > 0

\* A key that changes the text of the row of the cursor and nothing else:
\* a character typed on a row, a character deleted within a row.
RowEdit ==
  /\ mode = "edit"
  /\ mode' = "edit"
  /\ edits' = edits + 1
  /\ E.cy < E.numrows
  /\ E'.numrows = E.numrows
  /\ E'.cy = E.cy

\* The cascade seq from row at: each call goes to the row with the next
\* higher index, every row but the last has changed its open-comment flag
\* from e to e2, the last one has not or is the last row of the buffer, and
\* the rows behind the cascade are as they were.
CascadeAsClaimed(seq, at, e, e2) ==
  /\ Len(seq) >= 1
  /\ \A k \in 1..Len(seq) : seq[k] = at + k - 1
  /\ \A k \in 1..(Len(seq) - 1) :
        e.row[seq[k] + 1].hl_open_comment # e2.row[seq[k] + 1].hl_open_comment
  /\ LET last == seq[Len(seq)]
     IN /\ \/ last = e.numrows - 1
           \/ e.row[last + 1].hl_open_comment = e2.row[last + 1].hl_open_comment
        /\ \A j \in (last + 2)..e.numrows : e2.row[j] = e.row[j]

NoDuplicates(seq) == \A a, b \in 1..Len(seq) : a # b => seq[a] # seq[b]

C29_EnterBackspaceRestores ==
  [][(/\ mode = "edit"
      /\ edits' = edits + 1
      /\ E.cy < E.numrows
      /\ E.cx <= E.row[E.cy + 1].size
      /\ E'.numrows = E.numrows + 1
      /\ KeyEnter(MaxEdits))
     => LET e2 == editorDelChar(E')
        IN /\ e2.numrows = E.numrows
           /\ RawRows(e2) = RawRows(E)
           /\ e2.cy = E.cy
           /\ e2.cx = E.cx]_vars

\* A loaded file after two modifications that count three changes, Enter
\* on a row and the join that Backspace makes of the two rows it has left:
\* the rows are those of the file again, and the cursor stands inside a
\* row.
C29_Witness ==
  /\ mode = "edit"
  /\ file.arg
  /\ edits = 2
  /\ E.dirty = 3
  /\ E.numrows = Len(FileLines(file.data))
  /\ \A k \in 1..E.numrows : RawRows(E)[k] = WithoutLineEnds(FileLines(file.data)[k])
  /\ E.cy < E.numrows
  /\ E.cx > 0
  /\ E.cx < E.row[E.cy + 1].size

\* ------------------------------------------------------------ column conversion and render builder

\* C30: the cursor-column conversion and the render builder agree on the
\* expansion of tabs.  For every row and every buffer column cx < size the
\* render character at index editorRowCxToRx(row, cx) is the raw character
\* at cx, or a space where that is a tab; and editorRowCxToRx(row, size) is
\* rsize.
C30_ConversionAgreesWithRender ==
  \A i \in 1..E.numrows :
    LET r == E.row[i]
    IN /\ \A cx \in 0..(r.size - 1) :
            /\ editorRowCxToRx(r, cx) < r.rsize
            /\ r.render[editorRowCxToRx(r, cx) + 1] =
                 (IF r.chars[cx + 1] = "\t" THEN " " ELSE r.chars[cx + 1])
       /\ editorRowCxToRx(r, r.size) = r.rsize

\* The row TAB, 'a', TAB loaded: 'a' stands at render index 4 and the row
\* is 8 columns wide.
C30_Witness ==
  /\ mode = "edit"
  /\ E.numrows >= 1
  /\ E.row[1].chars = <<"\t", "a", "\t">>
  /\ E.row[1].render = <<" ", " ", " ", " ", "a", " ", " ", " ">>
  /\ editorRowCxToRx(E.row[1], 1) = 4
  /\ editorRowCxToRx(E.row[1], 3) = 8

====
